---- MODULE Spec2Model ----
(***************************************************************************)
(* MOS 6502 protocol decoder of libsigrokdecode: decoders/mos6502/pd.py    *)
(* (the per-sample bus cycle classifier, the instruction assembler and the *)
(* program counter tracker) and decoders/mos6502/tables.py (the static     *)
(* tables and the register/flag emulator).                                 *)
(***************************************************************************)
EXTENDS Integers, Sequences, FiniteSets, TLC

(***************************************************************************)
(* Bounds of the model.                                                    *)
(***************************************************************************)
\* Number of samples the harness delivers before the capture ends.
MaxSamples == 7

(***************************************************************************)
(* pd.py: enumerations.                                                    *)
(***************************************************************************)
\* class Cycle
FETCH == 0
OP1 == 1
OP2 == 2
MEMRD == 3
MEMWR == 4

\* cycle_to_name_map
cycle_to_name_map(c) ==
    CASE c = FETCH -> "Fetch"
      [] c = OP1   -> "Op1"
      [] c = OP2   -> "Op2"
      [] c = MEMRD -> "Mem Rd"
      [] c = MEMWR -> "Mem Wr"

\* class Ann; cycle_to_ann_map maps Cycle.X to Ann.X
AnnDATA == 0
AnnFETCH == 1
AnnOP1 == 2
AnnOP2 == 3
AnnMEMRD == 4
AnnMEMWR == 5
AnnINSTR == 6

cycle_to_ann_map(c) ==
    CASE c = FETCH -> AnnFETCH
      [] c = OP1   -> AnnOP1
      [] c = OP2   -> AnnOP2
      [] c = MEMRD -> AnnMEMRD
      [] c = MEMWR -> AnnMEMWR

\* The value reduce_bus returns for a bus with an unassigned line (Python's
\* None), encoded as an integer outside 0..255.
None == -1

\* The level srd reports for an unassigned channel.
Unassigned == 255

(***************************************************************************)
(* tables.py: addressing modes and the addressing mode table.              *)
(***************************************************************************)
IMP == 0
IMPA == 1
BRA == 2
IMM == 3
ZP == 4
ZPX == 5
ZPY == 6
INDX == 7
INDY == 8
IND == 9
ABS == 10
ABSX == 11
ABSY == 12
IND16 == 13
IND1X == 14
ZPR == 15

\* A str.format template is kept as its parsed form: literal text and
\* replacement fields {idx:spec}.
Lit(s) == [lit |-> s, idx |-> -1, spec |-> ""]
Fld(i, sp) == [lit |-> "", idx |-> i, spec |-> sp]

\* The table with the zero page relative mode given a length of four bytes.
addr_mode_len_map_LongZPR(mode) ==
    CASE mode = IMP   -> <<1, <<Fld(0, "")>> >>
      [] mode = IMPA  -> <<1, <<Fld(0, ""), Lit(" A")>> >>
      [] mode = BRA   -> <<2, <<Fld(0, ""), Lit(" "), Fld(3, "")>> >>
      [] mode = IMM   -> <<2, <<Fld(0, ""), Lit(" #"), Fld(1, "02X")>> >>
      [] mode = ZP    -> <<2, <<Fld(0, ""), Lit(" "), Fld(1, "02X")>> >>
      [] mode = ZPX   -> <<2, <<Fld(0, ""), Lit(" "), Fld(1, "02X"), Lit(",X")>> >>
      [] mode = ZPY   -> <<2, <<Fld(0, ""), Lit(" "), Fld(1, "02X"), Lit(",Y")>> >>
      [] mode = INDX  -> <<2, <<Fld(0, ""), Lit(" ("), Fld(1, "02X"), Lit(",X)")>> >>
      [] mode = INDY  -> <<2, <<Fld(0, ""), Lit(" ("), Fld(1, "02X"), Lit("),Y")>> >>
      [] mode = IND   -> <<2, <<Fld(0, ""), Lit(" ("), Fld(1, "02X"), Lit(")")>> >>
      [] mode = ABS   -> <<3, <<Fld(0, ""), Lit(" "), Fld(2, "02X"), Fld(1, "02X")>> >>
      [] mode = ABSX  -> <<3, <<Fld(0, ""), Lit(" "), Fld(2, "02X"), Fld(1, "02X"), Lit(",X")>> >>
      [] mode = ABSY  -> <<3, <<Fld(0, ""), Lit(" "), Fld(2, "02X"), Fld(1, "02X"), Lit(",Y")>> >>
      [] mode = IND16 -> <<3, <<Fld(0, ""), Lit(" ("), Fld(2, "02X"), Fld(1, "02X"), Lit(")")>> >>
      [] mode = IND1X -> <<3, <<Fld(0, ""), Lit(" ("), Fld(2, "02X"), Fld(1, "02X"), Lit(",X)")>> >>
      [] mode = ZPR   -> <<4, <<Fld(0, ""), Lit(" "), Fld(1, "02X"), Lit(","), Fld(3, "")>> >>

addr_mode_len_map(mode) ==
    CASE mode = IMP   -> <<1, <<Fld(0, "")>> >>
      [] mode = IMPA  -> <<1, <<Fld(0, ""), Lit(" A")>> >>
      [] mode = BRA   -> <<2, <<Fld(0, ""), Lit(" "), Fld(3, "")>> >>
      [] mode = IMM   -> <<2, <<Fld(0, ""), Lit(" #"), Fld(1, "02X")>> >>
      [] mode = ZP    -> <<2, <<Fld(0, ""), Lit(" "), Fld(1, "02X")>> >>
      [] mode = ZPX   -> <<2, <<Fld(0, ""), Lit(" "), Fld(1, "02X"), Lit(",X")>> >>
      [] mode = ZPY   -> <<2, <<Fld(0, ""), Lit(" "), Fld(1, "02X"), Lit(",Y")>> >>
      [] mode = INDX  -> <<2, <<Fld(0, ""), Lit(" ("), Fld(1, "02X"), Lit(",X)")>> >>
      [] mode = INDY  -> <<2, <<Fld(0, ""), Lit(" ("), Fld(1, "02X"), Lit("),Y")>> >>
      [] mode = IND   -> <<2, <<Fld(0, ""), Lit(" ("), Fld(1, "02X"), Lit(")")>> >>
      [] mode = ABS   -> <<3, <<Fld(0, ""), Lit(" "), Fld(2, "02X"), Fld(1, "02X")>> >>
      [] mode = ABSX  -> <<3, <<Fld(0, ""), Lit(" "), Fld(2, "02X"), Fld(1, "02X"), Lit(",X")>> >>
      [] mode = ABSY  -> <<3, <<Fld(0, ""), Lit(" "), Fld(2, "02X"), Fld(1, "02X"), Lit(",Y")>> >>
      [] mode = IND16 -> <<3, <<Fld(0, ""), Lit(" ("), Fld(2, "02X"), Fld(1, "02X"), Lit(")")>> >>
      [] mode = IND1X -> <<3, <<Fld(0, ""), Lit(" ("), Fld(2, "02X"), Fld(1, "02X"), Lit(",X)")>> >>
      [] mode = ZPR   -> <<3, <<Fld(0, ""), Lit(" "), Fld(1, "02X"), Lit(","), Fld(3, "")>> >>

(***************************************************************************)
(* tables.py: the instruction table, (mnemonic, addressing mode, early     *)
(* write flag, transfer function), one row per opcode 0x00..0xFF.  A row   *)
(* whose transfer function is 0 names "0".                                 *)
(***************************************************************************)
instr_table ==
  <<
    <<"BRK", IMM, 1, "op_BRK">>,  \* 0x00
    <<"ORA", INDX, 0, "op_ORA">>,  \* 0x01
    <<"NOP", IMM, 0, "0">>,  \* 0x02
    <<"NOP", IMP, 0, "0">>,  \* 0x03
    <<"TSB", ZP, 0, "op_TSB_TRB">>,  \* 0x04
    <<"ORA", ZP, 0, "op_ORA">>,  \* 0x05
    <<"ASL", ZP, 0, "op_ASL">>,  \* 0x06
    <<"RMB0", ZP, 0, "0">>,  \* 0x07
    <<"PHP", IMP, 1, "op_PHP">>,  \* 0x08
    <<"ORA", IMM, 0, "op_ORA">>,  \* 0x09
    <<"ASL", IMPA, 0, "op_ASLA">>,  \* 0x0A
    <<"NOP", IMP, 0, "0">>,  \* 0x0B
    <<"TSB", ABS, 0, "op_TSB_TRB">>,  \* 0x0C
    <<"ORA", ABS, 0, "op_ORA">>,  \* 0x0D
    <<"ASL", ABS, 0, "op_ASL">>,  \* 0x0E
    <<"BBR0", ZPR, 0, "0">>,  \* 0x0F
    <<"BPL", BRA, 0, "0">>,  \* 0x10
    <<"ORA", INDY, 0, "op_ORA">>,  \* 0x11
    <<"ORA", IND, 0, "op_ORA">>,  \* 0x12
    <<"NOP", IMP, 0, "0">>,  \* 0x13
    <<"TRB", ZP, 0, "op_TSB_TRB">>,  \* 0x14
    <<"ORA", ZPX, 0, "op_ORA">>,  \* 0x15
    <<"ASL", ZPX, 0, "op_ASL">>,  \* 0x16
    <<"RMB1", ZP, 0, "0">>,  \* 0x17
    <<"CLC", IMP, 0, "op_CLC">>,  \* 0x18
    <<"ORA", ABSY, 0, "op_ORA">>,  \* 0x19
    <<"INC", IMPA, 0, "op_INCA">>,  \* 0x1A
    <<"NOP", IMP, 0, "0">>,  \* 0x1B
    <<"TRB", ABS, 0, "op_TSB_TRB">>,  \* 0x1C
    <<"ORA", ABSX, 0, "op_ORA">>,  \* 0x1D
    <<"ASL", ABSX, 0, "op_ASL">>,  \* 0x1E
    <<"BBR1", ZPR, 0, "0">>,  \* 0x1F
    <<"JSR", ABS, 0, "op_JSR">>,  \* 0x20
    <<"AND", INDX, 0, "op_AND">>,  \* 0x21
    <<"NOP", IMM, 0, "0">>,  \* 0x22
    <<"NOP", IMP, 0, "0">>,  \* 0x23
    <<"BIT", ZP, 0, "op_BIT">>,  \* 0x24
    <<"AND", ZP, 0, "op_AND">>,  \* 0x25
    <<"ROL", ZP, 0, "op_ROL">>,  \* 0x26
    <<"RMB2", ZP, 0, "0">>,  \* 0x27
    <<"PLP", IMP, 0, "op_PLP">>,  \* 0x28
    <<"AND", IMM, 0, "op_AND">>,  \* 0x29
    <<"ROL", IMPA, 0, "op_ROLA">>,  \* 0x2A
    <<"NOP", IMP, 0, "0">>,  \* 0x2B
    <<"BIT", ABS, 0, "op_BIT">>,  \* 0x2C
    <<"AND", ABS, 0, "op_AND">>,  \* 0x2D
    <<"ROL", ABS, 0, "op_ROL">>,  \* 0x2E
    <<"BBR2", ZPR, 0, "0">>,  \* 0x2F
    <<"BMI", BRA, 0, "0">>,  \* 0x30
    <<"AND", INDY, 0, "op_AND">>,  \* 0x31
    <<"AND", IND, 0, "op_AND">>,  \* 0x32
    <<"NOP", IMP, 0, "0">>,  \* 0x33
    <<"BIT", ZPX, 0, "op_BIT">>,  \* 0x34
    <<"AND", ZPX, 0, "op_AND">>,  \* 0x35
    <<"ROL", ZPX, 0, "op_ROL">>,  \* 0x36
    <<"RMB3", ZP, 0, "0">>,  \* 0x37
    <<"SEC", IMP, 0, "op_SEC">>,  \* 0x38
    <<"AND", ABSY, 0, "op_AND">>,  \* 0x39
    <<"DEC", IMPA, 0, "op_DECA">>,  \* 0x3A
    <<"NOP", IMP, 0, "0">>,  \* 0x3B
    <<"BIT", ABSX, 0, "op_BIT">>,  \* 0x3C
    <<"AND", ABSX, 0, "op_AND">>,  \* 0x3D
    <<"ROL", ABSX, 0, "op_ROL">>,  \* 0x3E
    <<"BBR3", ZPR, 0, "0">>,  \* 0x3F
    <<"RTI", IMP, 0, "op_RTI">>,  \* 0x40
    <<"EOR", INDX, 0, "op_EOR">>,  \* 0x41
    <<"NOP", IMM, 0, "0">>,  \* 0x42
    <<"NOP", IMP, 0, "0">>,  \* 0x43
    <<"NOP", ZP, 0, "0">>,  \* 0x44
    <<"EOR", ZP, 0, "op_EOR">>,  \* 0x45
    <<"LSR", ZP, 0, "op_LSR">>,  \* 0x46
    <<"RMB4", ZP, 0, "0">>,  \* 0x47
    <<"PHA", IMP, 1, "op_PHA">>,  \* 0x48
    <<"EOR", IMM, 0, "op_EOR">>,  \* 0x49
    <<"LSR", IMPA, 0, "op_LSRA">>,  \* 0x4A
    <<"NOP", IMP, 0, "0">>,  \* 0x4B
    <<"JMP", ABS, 0, "0">>,  \* 0x4C
    <<"EOR", ABS, 0, "op_EOR">>,  \* 0x4D
    <<"LSR", ABS, 0, "op_LSR">>,  \* 0x4E
    <<"BBR4", ZPR, 0, "0">>,  \* 0x4F
    <<"BVC", BRA, 0, "0">>,  \* 0x50
    <<"EOR", INDY, 0, "op_EOR">>,  \* 0x51
    <<"EOR", IND, 0, "op_EOR">>,  \* 0x52
    <<"NOP", IMP, 0, "0">>,  \* 0x53
    <<"NOP", ZPX, 0, "0">>,  \* 0x54
    <<"EOR", ZPX, 0, "op_EOR">>,  \* 0x55
    <<"LSR", ZPX, 0, "op_LSR">>,  \* 0x56
    <<"RMB5", ZP, 0, "0">>,  \* 0x57
    <<"CLI", IMP, 0, "op_CLI">>,  \* 0x58
    <<"EOR", ABSY, 0, "op_EOR">>,  \* 0x59
    <<"PHY", IMP, 1, "op_PHY">>,  \* 0x5A
    <<"NOP", IMP, 0, "0">>,  \* 0x5B
    <<"NOP", ABS, 0, "0">>,  \* 0x5C
    <<"EOR", ABSX, 0, "op_EOR">>,  \* 0x5D
    <<"LSR", ABSX, 0, "op_LSR">>,  \* 0x5E
    <<"BBR5", ZPR, 0, "0">>,  \* 0x5F
    <<"RTS", IMP, 0, "op_RTS">>,  \* 0x60
    <<"ADC", INDX, 0, "op_ADC">>,  \* 0x61
    <<"NOP", IMM, 0, "0">>,  \* 0x62
    <<"NOP", IMP, 0, "0">>,  \* 0x63
    <<"STZ", ZP, 1, "0">>,  \* 0x64
    <<"ADC", ZP, 0, "op_ADC">>,  \* 0x65
    <<"ROR", ZP, 0, "op_ROR">>,  \* 0x66
    <<"RMB6", ZP, 0, "0">>,  \* 0x67
    <<"PLA", IMP, 0, "op_PLA">>,  \* 0x68
    <<"ADC", IMM, 0, "op_ADC">>,  \* 0x69
    <<"ROR", IMPA, 0, "op_RORA">>,  \* 0x6A
    <<"NOP", IMP, 0, "0">>,  \* 0x6B
    <<"JMP", IND16, 0, "0">>,  \* 0x6C
    <<"ADC", ABS, 0, "op_ADC">>,  \* 0x6D
    <<"ROR", ABS, 0, "op_ROR">>,  \* 0x6E
    <<"BBR6", ZPR, 0, "0">>,  \* 0x6F
    <<"BVS", BRA, 0, "0">>,  \* 0x70
    <<"ADC", INDY, 0, "op_ADC">>,  \* 0x71
    <<"ADC", IND, 0, "op_ADC">>,  \* 0x72
    <<"NOP", IMP, 0, "0">>,  \* 0x73
    <<"STZ", ZPX, 1, "0">>,  \* 0x74
    <<"ADC", ZPX, 0, "op_ADC">>,  \* 0x75
    <<"ROR", ZPX, 0, "op_ROR">>,  \* 0x76
    <<"RMB7", ZP, 0, "0">>,  \* 0x77
    <<"SEI", IMP, 0, "op_SEI">>,  \* 0x78
    <<"ADC", ABSY, 0, "op_ADC">>,  \* 0x79
    <<"PLY", IMP, 0, "op_PLY">>,  \* 0x7A
    <<"NOP", IMP, 0, "0">>,  \* 0x7B
    <<"JMP", IND1X, 0, "0">>,  \* 0x7C
    <<"ADC", ABSX, 0, "op_ADC">>,  \* 0x7D
    <<"ROR", ABSX, 0, "op_ROR">>,  \* 0x7E
    <<"BBR7", ZPR, 0, "0">>,  \* 0x7F
    <<"BRA", BRA, 0, "0">>,  \* 0x80
    <<"STA", INDX, 1, "op_STA">>,  \* 0x81
    <<"NOP", IMM, 0, "0">>,  \* 0x82
    <<"NOP", IMP, 0, "0">>,  \* 0x83
    <<"STY", ZP, 1, "op_STY">>,  \* 0x84
    <<"STA", ZP, 1, "op_STA">>,  \* 0x85
    <<"STX", ZP, 1, "op_STX">>,  \* 0x86
    <<"SMB0", ZP, 0, "0">>,  \* 0x87
    <<"DEY", IMP, 0, "op_DEY">>,  \* 0x88
    <<"BIT", IMM, 0, "op_BIT_IMM">>,  \* 0x89
    <<"TXA", IMP, 0, "op_TXA">>,  \* 0x8A
    <<"NOP", IMP, 0, "0">>,  \* 0x8B
    <<"STY", ABS, 1, "op_STY">>,  \* 0x8C
    <<"STA", ABS, 1, "op_STA">>,  \* 0x8D
    <<"STX", ABS, 1, "op_STX">>,  \* 0x8E
    <<"BBS0", ZPR, 0, "0">>,  \* 0x8F
    <<"BCC", BRA, 0, "0">>,  \* 0x90
    <<"STA", INDY, 1, "op_STA">>,  \* 0x91
    <<"STA", IND, 1, "op_STA">>,  \* 0x92
    <<"NOP", IMP, 0, "0">>,  \* 0x93
    <<"STY", ZPX, 1, "op_STY">>,  \* 0x94
    <<"STA", ZPX, 1, "op_STA">>,  \* 0x95
    <<"STX", ZPY, 1, "op_STX">>,  \* 0x96
    <<"SMB1", ZP, 0, "0">>,  \* 0x97
    <<"TYA", IMP, 0, "op_TYA">>,  \* 0x98
    <<"STA", ABSY, 1, "op_STA">>,  \* 0x99
    <<"TXS", IMP, 0, "op_TXS">>,  \* 0x9A
    <<"NOP", IMP, 0, "0">>,  \* 0x9B
    <<"STZ", ABS, 1, "0">>,  \* 0x9C
    <<"STA", ABSX, 1, "op_STA">>,  \* 0x9D
    <<"STZ", ABSX, 1, "0">>,  \* 0x9E
    <<"BBS1", ZPR, 0, "0">>,  \* 0x9F
    <<"LDY", IMM, 0, "op_LDY">>,  \* 0xA0
    <<"LDA", INDX, 0, "op_LDA">>,  \* 0xA1
    <<"LDX", IMM, 0, "op_LDX">>,  \* 0xA2
    <<"NOP", IMP, 0, "0">>,  \* 0xA3
    <<"LDY", ZP, 0, "op_LDY">>,  \* 0xA4
    <<"LDA", ZP, 0, "op_LDA">>,  \* 0xA5
    <<"LDX", ZP, 0, "op_LDX">>,  \* 0xA6
    <<"SMB2", ZP, 0, "0">>,  \* 0xA7
    <<"TAY", IMP, 0, "op_TAY">>,  \* 0xA8
    <<"LDA", IMM, 0, "op_LDA">>,  \* 0xA9
    <<"TAX", IMP, 0, "op_TAX">>,  \* 0xAA
    <<"NOP", IMP, 0, "0">>,  \* 0xAB
    <<"LDY", ABS, 0, "op_LDY">>,  \* 0xAC
    <<"LDA", ABS, 0, "op_LDA">>,  \* 0xAD
    <<"LDX", ABS, 0, "op_LDX">>,  \* 0xAE
    <<"BBS2", ZPR, 0, "0">>,  \* 0xAF
    <<"BCS", BRA, 0, "0">>,  \* 0xB0
    <<"LDA", INDY, 0, "op_LDA">>,  \* 0xB1
    <<"LDA", IND, 0, "op_LDA">>,  \* 0xB2
    <<"NOP", IMP, 0, "0">>,  \* 0xB3
    <<"LDY", ZPX, 0, "op_LDY">>,  \* 0xB4
    <<"LDA", ZPX, 0, "op_LDA">>,  \* 0xB5
    <<"LDX", ZPY, 0, "op_LDX">>,  \* 0xB6
    <<"SMB3", ZP, 0, "0">>,  \* 0xB7
    <<"CLV", IMP, 0, "op_CLV">>,  \* 0xB8
    <<"LDA", ABSY, 0, "op_LDA">>,  \* 0xB9
    <<"TSX", IMP, 0, "op_TSX">>,  \* 0xBA
    <<"NOP", IMP, 0, "0">>,  \* 0xBB
    <<"LDY", ABSX, 0, "op_LDY">>,  \* 0xBC
    <<"LDA", ABSX, 0, "op_LDA">>,  \* 0xBD
    <<"LDX", ABSY, 0, "op_LDX">>,  \* 0xBE
    <<"BBS3", ZPR, 0, "0">>,  \* 0xBF
    <<"CPY", IMM, 0, "op_CPY">>,  \* 0xC0
    <<"CMP", INDX, 0, "op_CMP">>,  \* 0xC1
    <<"NOP", IMM, 0, "0">>,  \* 0xC2
    <<"NOP", IMP, 0, "0">>,  \* 0xC3
    <<"CPY", ZP, 0, "op_CPY">>,  \* 0xC4
    <<"CMP", ZP, 0, "op_CMP">>,  \* 0xC5
    <<"DEC", ZP, 0, "op_DEC">>,  \* 0xC6
    <<"SMB4", ZP, 0, "0">>,  \* 0xC7
    <<"INY", IMP, 0, "op_INY">>,  \* 0xC8
    <<"CMP", IMM, 0, "op_CMP">>,  \* 0xC9
    <<"DEX", IMP, 0, "op_DEX">>,  \* 0xCA
    <<"WAI", IMP, 0, "0">>,  \* 0xCB
    <<"CPY", ABS, 0, "op_CPY">>,  \* 0xCC
    <<"CMP", ABS, 0, "op_CMP">>,  \* 0xCD
    <<"DEC", ABS, 0, "op_DEC">>,  \* 0xCE
    <<"BBS4", ZPR, 0, "0">>,  \* 0xCF
    <<"BNE", BRA, 0, "0">>,  \* 0xD0
    <<"CMP", INDY, 0, "op_CMP">>,  \* 0xD1
    <<"CMP", IND, 0, "op_CMP">>,  \* 0xD2
    <<"NOP", IMP, 0, "0">>,  \* 0xD3
    <<"NOP", ZPX, 0, "0">>,  \* 0xD4
    <<"CMP", ZPX, 0, "op_CMP">>,  \* 0xD5
    <<"DEC", ZPX, 0, "op_DEC">>,  \* 0xD6
    <<"SMB5", ZP, 0, "0">>,  \* 0xD7
    <<"CLD", IMP, 0, "op_CLD">>,  \* 0xD8
    <<"CMP", ABSY, 0, "op_CMP">>,  \* 0xD9
    <<"PHX", IMP, 1, "op_PHX">>,  \* 0xDA
    <<"STP", IMP, 0, "0">>,  \* 0xDB
    <<"NOP", ABS, 0, "0">>,  \* 0xDC
    <<"CMP", ABSX, 0, "op_CMP">>,  \* 0xDD
    <<"DEC", ABSX, 0, "op_DEC">>,  \* 0xDE
    <<"BBS5", ZPR, 0, "0">>,  \* 0xDF
    <<"CPX", IMM, 0, "op_CPX">>,  \* 0xE0
    <<"SBC", INDX, 0, "op_SBC">>,  \* 0xE1
    <<"NOP", IMM, 0, "0">>,  \* 0xE2
    <<"NOP", IMP, 0, "0">>,  \* 0xE3
    <<"CPX", ZP, 0, "op_CPX">>,  \* 0xE4
    <<"SBC", ZP, 0, "op_SBC">>,  \* 0xE5
    <<"INC", ZP, 0, "op_INC">>,  \* 0xE6
    <<"SMB6", ZP, 0, "0">>,  \* 0xE7
    <<"INX", IMP, 0, "op_INX">>,  \* 0xE8
    <<"SBC", IMM, 0, "op_SBC">>,  \* 0xE9
    <<"NOP", IMP, 0, "0">>,  \* 0xEA
    <<"NOP", IMP, 0, "0">>,  \* 0xEB
    <<"CPX", ABS, 0, "op_CPX">>,  \* 0xEC
    <<"SBC", ABS, 0, "op_SBC">>,  \* 0xED
    <<"INC", ABS, 0, "op_INC">>,  \* 0xEE
    <<"BBS6", ZPR, 0, "0">>,  \* 0xEF
    <<"BEQ", BRA, 0, "0">>,  \* 0xF0
    <<"SBC", INDY, 0, "op_SBC">>,  \* 0xF1
    <<"SBC", IND, 0, "op_SBC">>,  \* 0xF2
    <<"NOP", IMP, 0, "0">>,  \* 0xF3
    <<"NOP", ZPX, 0, "0">>,  \* 0xF4
    <<"SBC", ZPX, 0, "op_SBC">>,  \* 0xF5
    <<"INC", ZPX, 0, "op_INC">>,  \* 0xF6
    <<"SMB7", ZP, 0, "0">>,  \* 0xF7
    <<"SED", IMP, 0, "op_SED">>,  \* 0xF8
    <<"SBC", ABSY, 0, "op_SBC">>,  \* 0xF9
    <<"PLX", IMP, 0, "op_PLX">>,  \* 0xFA
    <<"NOP", IMP, 0, "0">>,  \* 0xFB
    <<"NOP", ABS, 0, "0">>,  \* 0xFC
    <<"SBC", ABSX, 0, "op_SBC">>,  \* 0xFD
    <<"INC", ABSX, 0, "op_INC">>,  \* 0xFE
    <<"BBS7", ZPR, 0, "0">>  \* 0xFF
  >>

\* instr_table[opcode]: Python indexes the rows by the opcode byte.
InstrOf(opcode) == instr_table[opcode + 1]

(***************************************************************************)
(* Python integer and string primitives used by the decoder.               *)
(***************************************************************************)
RECURSIVE Pow2(_)
Pow2(n) == IF n = 0 THEN 1 ELSE 2 * Pow2(n - 1)

\* a >> n on Python's unbounded integers: floor division, also for a < 0.
Shr(a, n) == a \div Pow2(n)

\* a << n
Shl(a, n) == a * Pow2(n)

\* a & b and a | b for a, b >= 0.
RECURSIVE NatAnd(_, _)
NatAnd(a, b) ==
    IF a = 0 \/ b = 0 THEN 0
    ELSE 2 * NatAnd(a \div 2, b \div 2) + (IF a % 2 = 1 /\ b % 2 = 1 THEN 1 ELSE 0)

RECURSIVE NatAndNot(_, _)
NatAndNot(a, b) ==
    IF a = 0 THEN 0
    ELSE 2 * NatAndNot(a \div 2, b \div 2) + (IF a % 2 = 1 /\ b % 2 = 0 THEN 1 ELSE 0)

RECURSIVE NatOr(_, _)
NatOr(a, b) ==
    IF a = 0 THEN b
    ELSE IF b = 0 THEN a
    ELSE 2 * NatOr(a \div 2, b \div 2) + (IF a % 2 = 1 \/ b % 2 = 1 THEN 1 ELSE 0)

\* a & m for a mask m >= 0 and any integer a (two's complement of unbounded
\* width): only the bits of the mask matter.  A mask of k low ones keeps
\* a mod 2^k, a mask of one bit keeps that bit.
LowMasks == {1, 3, 7, 15, 31, 63, 127, 255, 65535}
BitMasks == {2, 4, 8, 16, 32, 64, 128}

BitAnd(a, m) ==
    IF m \in LowMasks THEN a % (m + 1)
    ELSE IF m \in BitMasks THEN ((a \div m) % 2) * m
    ELSE IF a >= 0 THEN NatAnd(a, m)
    ELSE NatAndNot(m, (-1) - a)

\* a | b for b >= 0 and any integer a: for a < 0, a | b = ~(~a & ~b).
BitOr(a, b) ==
    IF a >= 0 THEN NatOr(a, b)
    ELSE (-1) - NatAndNot((-1) - a, b)

HexDigitsLower == <<"0", "1", "2", "3", "4", "5", "6", "7", "8", "9", "a", "b", "c", "d", "e", "f">>
HexDigitsUpper == <<"0", "1", "2", "3", "4", "5", "6", "7", "8", "9", "A", "B", "C", "D", "E", "F">>

RECURSIVE HexDigits(_, _)
HexDigits(n, upper) ==
    LET d == IF upper THEN HexDigitsUpper[(n % 16) + 1] ELSE HexDigitsLower[(n % 16) + 1]
    IN IF n < 16 THEN d ELSE HexDigits(n \div 16, upper) \o d

RECURSIVE ZeroPad(_, _)
ZeroPad(s, width) == IF Len(s) >= width THEN s ELSE ZeroPad("0" \o s, width)

\* format(n, '0<width>x') / '0<width>X': sign-aware zero padding to the
\* minimum width, more digits when the value needs them.
FormatHex(n, width, upper) ==
    IF n >= 0 THEN ZeroPad(HexDigits(n, upper), width)
    ELSE "-" \o ZeroPad(HexDigits(-n, upper), width - 1)

\* One replacement field of fmt.format: the mnemonic is a str ('{0}'), the
\* operands are formatted as '02X'.
FormatField(v, spec) ==
    CASE spec = ""    -> v
      [] spec = "02X" -> FormatHex(v, 2, TRUE)

\* fmt.format(*args): the fields are replaced left to right; a field whose
\* index is not among the positional arguments raises IndexError.
IndexError == "IndexError"
TypeError == "TypeError"

RECURSIVE StrFormatFrom(_, _, _)
StrFormatFrom(tpl, args, i) ==
    IF i > Len(tpl) THEN [ok |-> TRUE, text |-> ""]
    ELSE IF tpl[i].idx < 0
         THEN LET rest == StrFormatFrom(tpl, args, i + 1)
              IN [ok |-> rest.ok, text |-> tpl[i].lit \o rest.text]
         ELSE IF tpl[i].idx >= Len(args)
              THEN [ok |-> FALSE, text |-> ""]
              ELSE LET rest == StrFormatFrom(tpl, args, i + 1)
                   IN [ok |-> rest.ok,
                       text |-> FormatField(args[tpl[i].idx + 1], tpl[i].spec) \o rest.text]

StrFormat(tpl, args) == StrFormatFrom(tpl, args, 1)

(***************************************************************************)
(* pd.py: helpers.                                                         *)
(***************************************************************************)
signed_byte(byte) == IF byte < 128 THEN byte ELSE byte - 256

\* reduce(lambda a, b: (a << 1) | b, reversed(bus)) over bus[from..1]
RECURSIVE ReduceFrom(_, _, _)
ReduceFrom(bus, i, acc) ==
    IF i = 0 THEN acc
    ELSE ReduceFrom(bus, i - 1, BitOr(Shl(acc, 1), bus[i]))

reduce_bus(bus) ==
    IF \E i \in 1..Len(bus) : bus[i] = Unassigned
    THEN None
    ELSE ReduceFrom(bus, Len(bus) - 1, bus[Len(bus)])

(***************************************************************************)
(* tables.py: class Emulator.  A register model is a record; -1 means      *)
(* unknown.  Every method is an operator from the model (and the operand)  *)
(* to the model after the call.                                            *)
(***************************************************************************)
RECURSIVE NatXor(_, _)
NatXor(a, b) ==
    IF a = 0 THEN b
    ELSE IF b = 0 THEN a
    ELSE 2 * NatXor(a \div 2, b \div 2) + (IF a % 2 # b % 2 THEN 1 ELSE 0)

\* int(cond) of a bool
int(cond) == IF cond THEN 1 ELSE 0

set_NZ_unknown(e) == [e EXCEPT !.N = -1, !.Z = -1]

set_NZC_unknown(e) == [e EXCEPT !.N = -1, !.Z = -1, !.C = -1]

\* self.N = int(value & 128 > 0); self.Z = int(value == 0)
set_NZ(e, value) ==
    [e EXCEPT !.N = int(BitAnd(value, 128) > 0), !.Z = int(value = 0)]

\* Every mismatch assigns a local name failflag, never self.failflag: the
\* method returns with the model as it was.
check_NVDIZC(e, operand) ==
    LET failflag ==
            IF \/ (e.N >= 0 /\ e.N # BitAnd(Shr(operand, 7), 1))
               \/ (e.V >= 0 /\ e.V # BitAnd(Shr(operand, 6), 1))
               \/ (e.D >= 0 /\ e.D # BitAnd(Shr(operand, 3), 1))
               \/ (e.I >= 0 /\ e.I # BitAnd(Shr(operand, 2), 1))
               \/ (e.Z >= 0 /\ e.Z # BitAnd(Shr(operand, 1), 1))
               \/ (e.C >= 0 /\ e.C # BitAnd(Shr(operand, 0), 1))
            THEN 1 ELSE 0
    IN e

set_NVDIZC(e, operand) ==
    [e EXCEPT !.N = BitAnd(Shr(operand, 7), 1),
              !.V = BitAnd(Shr(operand, 6), 1),
              !.D = BitAnd(Shr(operand, 3), 1),
              !.I = BitAnd(Shr(operand, 2), 1),
              !.Z = BitAnd(Shr(operand, 1), 1),
              !.C = BitAnd(Shr(operand, 0), 1)]

\* if self.S >= 0: self.S = (self.S + d) & 255
AdjustS(e, d) == IF e.S >= 0 THEN [e EXCEPT !.S = BitAnd(e.S + d, 255)] ELSE e

interrupt(e, operand) ==
    LET e1 == AdjustS(e, -3)
        e2 == check_NVDIZC(e1, operand)
        e3 == set_NVDIZC(e2, operand)
    IN [e3 EXCEPT !.I = 1, !.D = 0]

op_ADC(e, operand) ==
    IF e.A >= 0 /\ e.C >= 0
    THEN LET tmp == e.A + operand + e.C
             e1 == [e EXCEPT !.C = BitAnd(Shr(tmp, 8), 1), !.A = BitAnd(tmp, 255)]
         IN set_NZ(e1, e1.A)
    ELSE set_NZC_unknown([e EXCEPT !.A = -1])

op_AND(e, operand) ==
    IF e.A >= 0
    THEN LET e1 == [e EXCEPT !.A = BitAnd(e.A, operand)] IN set_NZ(e1, e1.A)
    ELSE set_NZ_unknown(e)

op_ASLA(e, operand) ==
    IF e.A >= 0
    THEN LET e1 == [e EXCEPT !.C = BitAnd(Shr(e.A, 7), 1), !.A = BitAnd(Shl(e.A, 1), 255)]
         IN set_NZ(e1, e1.A)
    ELSE set_NZC_unknown(e)

op_ASL(e, operand) ==
    set_NZ([e EXCEPT !.C = BitAnd(Shr(operand, 7), 1)], BitAnd(Shl(operand, 1), 255))

op_BRK(e, operand) == interrupt(e, operand)

\* self.Z = int(self.A & operand == 0): & binds tighter than ==
op_BIT_IMM(e, operand) ==
    IF e.A >= 0
    THEN [e EXCEPT !.Z = int(BitAnd(e.A, operand) = 0)]
    ELSE [e EXCEPT !.Z = -1]

op_BIT(e, operand) ==
    LET e1 == [e EXCEPT !.N = BitAnd(Shr(operand, 7), 1), !.V = BitAnd(Shr(operand, 6), 1)]
    IN IF e.A >= 0
       THEN [e1 EXCEPT !.Z = int(BitAnd(e.A, operand) = 0)]
       ELSE [e1 EXCEPT !.Z = -1]

op_CLC(e, operand) == [e EXCEPT !.C = 0]

op_CLD(e, operand) == [e EXCEPT !.D = 0]

op_CLI(e, operand) == [e EXCEPT !.I = 0]

op_CLV(e, operand) == [e EXCEPT !.V = 0]

\* tmp = reg - operand may be negative: set_NZ masks it as Python does.
Compare(e, reg, operand) ==
    IF reg >= 0
    THEN LET tmp == reg - operand
         IN set_NZ([e EXCEPT !.C = int(tmp >= 0)], tmp)
    ELSE e

op_CMP(e, operand) == Compare(e, e.A, operand)

op_CPX(e, operand) == Compare(e, e.X, operand)

op_CPY(e, operand) == Compare(e, e.Y, operand)

op_DECA(e, operand) ==
    IF e.A >= 0
    THEN LET e1 == [e EXCEPT !.A = BitAnd(e.A - 1, 255)] IN set_NZ(e1, e1.A)
    ELSE set_NZ_unknown(e)

op_DEC(e, operand) == set_NZ(e, BitAnd(operand - 1, 255))

op_DEX(e, operand) ==
    IF e.X >= 0
    THEN LET e1 == [e EXCEPT !.X = BitAnd(e.X - 1, 255)] IN set_NZ(e1, e1.X)
    ELSE set_NZ_unknown(e)

op_DEY(e, operand) ==
    IF e.Y >= 0
    THEN LET e1 == [e EXCEPT !.Y = BitAnd(e.Y - 1, 255)] IN set_NZ(e1, e1.Y)
    ELSE set_NZ_unknown(e)

op_EOR(e, operand) ==
    IF e.A >= 0
    THEN LET e1 == [e EXCEPT !.A = NatXor(e.A, operand)] IN set_NZ(e1, e1.A)
    ELSE set_NZ_unknown(e)

op_INCA(e, operand) ==
    IF e.A >= 0
    THEN LET e1 == [e EXCEPT !.A = BitAnd(e.A + 1, 255)] IN set_NZ(e1, e1.A)
    ELSE set_NZ_unknown(e)

op_INC(e, operand) == set_NZ(e, BitAnd(operand + 1, 255))

op_INX(e, operand) ==
    IF e.X >= 0
    THEN LET e1 == [e EXCEPT !.X = BitAnd(e.X + 1, 255)] IN set_NZ(e1, e1.X)
    ELSE set_NZ_unknown(e)

op_INY(e, operand) ==
    IF e.Y >= 0
    THEN LET e1 == [e EXCEPT !.Y = BitAnd(e.Y + 1, 255)] IN set_NZ(e1, e1.Y)
    ELSE set_NZ_unknown(e)

op_JSR(e, operand) == AdjustS(e, -2)

op_LDA(e, operand) == set_NZ([e EXCEPT !.A = operand], operand)

op_LDX(e, operand) == set_NZ([e EXCEPT !.X = operand], operand)

op_LDY(e, operand) == set_NZ([e EXCEPT !.Y = operand], operand)

op_LSRA(e, operand) ==
    IF e.A >= 0
    THEN LET e1 == [e EXCEPT !.C = BitAnd(e.A, 1), !.A = Shr(e.A, 1)] IN set_NZ(e1, e1.A)
    ELSE set_NZC_unknown(e)

op_LSR(e, operand) == set_NZ([e EXCEPT !.C = BitAnd(operand, 1)], Shr(operand, 1))

op_ORA(e, operand) ==
    IF e.A >= 0
    THEN LET e1 == [e EXCEPT !.A = BitOr(e.A, operand)] IN set_NZ(e1, e1.A)
    ELSE set_NZ_unknown(e)

\* A store that takes the operand without the cross-check.
op_STA_Unchecked(e, operand) == [e EXCEPT !.A = operand]

op_STA(e, operand) ==
    [e EXCEPT !.failflag = IF e.A >= 0 /\ operand # e.A THEN 1 ELSE @, !.A = operand]

op_STX(e, operand) ==
    [e EXCEPT !.failflag = IF e.X >= 0 /\ operand # e.X THEN 1 ELSE @, !.X = operand]

op_STY(e, operand) ==
    [e EXCEPT !.failflag = IF e.Y >= 0 /\ operand # e.Y THEN 1 ELSE @, !.Y = operand]

\* A push that stores and leaves the stack pointer alone.
op_PHA_NoStack(e, operand) == op_STA(e, operand)

op_PHA(e, operand) == op_STA(AdjustS(e, -1), operand)

op_PHP(e, operand) == set_NVDIZC(check_NVDIZC(AdjustS(e, -1), operand), operand)

op_PHX(e, operand) == op_STX(AdjustS(e, -1), operand)

op_PHY(e, operand) == op_STY(AdjustS(e, -1), operand)

op_PLA(e, operand) == AdjustS(set_NZ([e EXCEPT !.A = operand], operand), 1)

op_PLP(e, operand) == AdjustS(set_NVDIZC(e, operand), 1)

op_PLX(e, operand) == AdjustS(set_NZ([e EXCEPT !.X = operand], operand), 1)

op_PLY(e, operand) == AdjustS(set_NZ([e EXCEPT !.Y = operand], operand), 1)

op_ROLA(e, operand) ==
    IF e.A >= 0 /\ e.C >= 0
    THEN LET tmp == Shl(e.A, 1) + e.C
             e1 == [e EXCEPT !.C = BitAnd(Shr(tmp, 8), 1), !.A = BitAnd(tmp, 255)]
         IN set_NZ(e1, e1.A)
    ELSE set_NZC_unknown([e EXCEPT !.A = -1])

op_ROL(e, operand) ==
    IF e.C >= 0
    THEN LET tmp == Shl(operand, 1) + e.C
         IN set_NZ([e EXCEPT !.C = BitAnd(Shr(tmp, 8), 1)], BitAnd(tmp, 255))
    ELSE set_NZC_unknown(e)

op_RORA(e, operand) ==
    IF e.A >= 0 /\ e.C >= 0
    THEN LET tmp == Shr(e.A, 1) + Shl(e.C, 7)
         IN set_NZ([e EXCEPT !.C = BitAnd(e.A, 1), !.A = tmp], tmp)
    ELSE set_NZC_unknown([e EXCEPT !.A = -1])

op_ROR(e, operand) ==
    IF e.C >= 0
    THEN LET tmp == Shr(operand, 1) + Shl(e.C, 7)
         IN set_NZ([e EXCEPT !.C = BitAnd(operand, 1)], tmp)
    ELSE set_NZC_unknown(e)

op_RTS(e, operand) == AdjustS(e, 2)

op_RTI(e, operand) == AdjustS(set_NVDIZC(e, operand), 3)

op_SBC(e, operand) ==
    IF e.A >= 0 /\ e.C >= 0
    THEN LET tmp == e.A - operand - (1 - e.C)
             e1 == [e EXCEPT !.C = 1 - BitAnd(Shr(tmp, 8), 1), !.A = BitAnd(tmp, 255)]
         IN set_NZ(e1, e1.A)
    ELSE set_NZC_unknown([e EXCEPT !.A = -1])

op_SEC(e, operand) == [e EXCEPT !.C = 1]

op_SED(e, operand) == [e EXCEPT !.D = 1]

op_SEI(e, operand) == [e EXCEPT !.I = 1]

op_TAX(e, operand) ==
    IF e.A >= 0 THEN set_NZ([e EXCEPT !.X = e.A], e.A) ELSE set_NZ_unknown(e)

op_TAY(e, operand) ==
    IF e.A >= 0 THEN set_NZ([e EXCEPT !.Y = e.A], e.A) ELSE set_NZ_unknown(e)

op_TSB_TRB(e, operand) ==
    IF e.A >= 0
    THEN [e EXCEPT !.Z = int(BitAnd(e.A, operand) = 0)]
    ELSE [e EXCEPT !.Z = -1]

op_TSX(e, operand) ==
    IF e.S >= 0 THEN set_NZ([e EXCEPT !.X = e.S], e.S) ELSE set_NZ_unknown(e)

\* The transfer without the test for an unknown source.
op_TXA_Unguarded(e, operand) == set_NZ([e EXCEPT !.A = e.X], e.X)

op_TXA(e, operand) ==
    IF e.X >= 0 THEN set_NZ([e EXCEPT !.A = e.X], e.X) ELSE set_NZ_unknown(e)

op_TXS(e, operand) == IF e.X >= 0 THEN [e EXCEPT !.S = e.X] ELSE e

\* The known branch assigns A and leaves N and Z alone.
op_TYA(e, operand) ==
    IF e.Y >= 0 THEN [e EXCEPT !.A = e.Y] ELSE set_NZ_unknown(e)

\* The methods of the Emulator that take an operand, by name.
TransferFunctions ==
    {"interrupt", "op_ADC", "op_AND", "op_ASLA", "op_ASL", "op_BRK", "op_BIT_IMM",
     "op_BIT", "op_CLC", "op_CLD", "op_CLI", "op_CLV", "op_CMP", "op_CPX", "op_CPY",
     "op_DECA", "op_DEC", "op_DEX", "op_DEY", "op_EOR", "op_INCA", "op_INC", "op_INX",
     "op_INY", "op_JSR", "op_LDA", "op_LDX", "op_LDY", "op_LSRA", "op_LSR", "op_ORA",
     "op_PHA", "op_PHP", "op_PHX", "op_PHY", "op_PLA", "op_PLP", "op_PLX", "op_PLY",
     "op_ROLA", "op_ROL", "op_RORA", "op_ROR", "op_RTS", "op_RTI", "op_SBC", "op_SEC",
     "op_SED", "op_SEI", "op_STA", "op_STX", "op_STY", "op_TAX", "op_TAY", "op_TSB_TRB",
     "op_TSX", "op_TXA", "op_TXS", "op_TYA"}

\* em.<fn>(operand)
Call(fn, e, operand) ==
    CASE fn = "interrupt" -> interrupt(e, operand)
      [] fn = "op_ADC" -> op_ADC(e, operand)
      [] fn = "op_AND" -> op_AND(e, operand)
      [] fn = "op_ASLA" -> op_ASLA(e, operand)
      [] fn = "op_ASL" -> op_ASL(e, operand)
      [] fn = "op_BRK" -> op_BRK(e, operand)
      [] fn = "op_BIT_IMM" -> op_BIT_IMM(e, operand)
      [] fn = "op_BIT" -> op_BIT(e, operand)
      [] fn = "op_CLC" -> op_CLC(e, operand)
      [] fn = "op_CLD" -> op_CLD(e, operand)
      [] fn = "op_CLI" -> op_CLI(e, operand)
      [] fn = "op_CLV" -> op_CLV(e, operand)
      [] fn = "op_CMP" -> op_CMP(e, operand)
      [] fn = "op_CPX" -> op_CPX(e, operand)
      [] fn = "op_CPY" -> op_CPY(e, operand)
      [] fn = "op_DECA" -> op_DECA(e, operand)
      [] fn = "op_DEC" -> op_DEC(e, operand)
      [] fn = "op_DEX" -> op_DEX(e, operand)
      [] fn = "op_DEY" -> op_DEY(e, operand)
      [] fn = "op_EOR" -> op_EOR(e, operand)
      [] fn = "op_INCA" -> op_INCA(e, operand)
      [] fn = "op_INC" -> op_INC(e, operand)
      [] fn = "op_INX" -> op_INX(e, operand)
      [] fn = "op_INY" -> op_INY(e, operand)
      [] fn = "op_JSR" -> op_JSR(e, operand)
      [] fn = "op_LDA" -> op_LDA(e, operand)
      [] fn = "op_LDX" -> op_LDX(e, operand)
      [] fn = "op_LDY" -> op_LDY(e, operand)
      [] fn = "op_LSRA" -> op_LSRA(e, operand)
      [] fn = "op_LSR" -> op_LSR(e, operand)
      [] fn = "op_ORA" -> op_ORA(e, operand)
      [] fn = "op_PHA" -> op_PHA(e, operand)
      [] fn = "op_PHP" -> op_PHP(e, operand)
      [] fn = "op_PHX" -> op_PHX(e, operand)
      [] fn = "op_PHY" -> op_PHY(e, operand)
      [] fn = "op_PLA" -> op_PLA(e, operand)
      [] fn = "op_PLP" -> op_PLP(e, operand)
      [] fn = "op_PLX" -> op_PLX(e, operand)
      [] fn = "op_PLY" -> op_PLY(e, operand)
      [] fn = "op_ROLA" -> op_ROLA(e, operand)
      [] fn = "op_ROL" -> op_ROL(e, operand)
      [] fn = "op_RORA" -> op_RORA(e, operand)
      [] fn = "op_ROR" -> op_ROR(e, operand)
      [] fn = "op_RTS" -> op_RTS(e, operand)
      [] fn = "op_RTI" -> op_RTI(e, operand)
      [] fn = "op_SBC" -> op_SBC(e, operand)
      [] fn = "op_SEC" -> op_SEC(e, operand)
      [] fn = "op_SED" -> op_SED(e, operand)
      [] fn = "op_SEI" -> op_SEI(e, operand)
      [] fn = "op_STA" -> op_STA(e, operand)
      [] fn = "op_STX" -> op_STX(e, operand)
      [] fn = "op_STY" -> op_STY(e, operand)
      [] fn = "op_TAX" -> op_TAX(e, operand)
      [] fn = "op_TAY" -> op_TAY(e, operand)
      [] fn = "op_TSB_TRB" -> op_TSB_TRB(e, operand)
      [] fn = "op_TSX" -> op_TSX(e, operand)
      [] fn = "op_TXA" -> op_TXA(e, operand)
      [] fn = "op_TXS" -> op_TXS(e, operand)
      [] fn = "op_TYA" -> op_TYA(e, operand)

\* '??' if r < 0 else format(r, '02X'); '?' if f < 0 else format(f, '01X')
ShowField(v, width) ==
    IF v < 0 THEN (IF width = 2 THEN "??" ELSE "?") ELSE FormatHex(v, width, TRUE)

\* The part of get_state's result that shows the registers and flags.
StateText(e) ==
    "A=" \o ShowField(e.A, 2) \o " X=" \o ShowField(e.X, 2)
         \o " Y=" \o ShowField(e.Y, 2) \o " SP=" \o ShowField(e.S, 2)
         \o " N=" \o ShowField(e.N, 1) \o " V=" \o ShowField(e.V, 1)
         \o " D=" \o ShowField(e.D, 1) \o " I=" \o ShowField(e.I, 1)
         \o " Z=" \o ShowField(e.Z, 1) \o " C=" \o ShowField(e.C, 1)

\* ff = ' prediction failed' if self.failflag else ''
FailText(e) == IF e.failflag # 0 THEN " prediction failed" ELSE ""

\* get_state: the string returned, and the model after the call.
get_state(e) ==
    [text |-> StateText(e) \o FailText(e), em |-> [e EXCEPT !.failflag = 0]]

(***************************************************************************)
(* pd.py: class Pin, and the samples the harness delivers.                 *)
(***************************************************************************)
PinD0 == 0
PinD7 == 7
PinRNW == 8
PinSYNC == 9

\* pins[p] for a Python index p
PinAt(pins, p) == pins[p + 1]

\* pins[Pin.D0:Pin.D7+1]
DataPins(pins) == SubSeq(pins, PinD0 + 1, PinD7 + 1)

\* The eight data lines carrying byte b, D0 first.
BitsOf(b) == [i \in 1..8 |-> (b \div Pow2(i - 1)) % 2]

PinsOf(b, rnw, sync) == BitsOf(b) \o <<rnw, sync>>

\* Input alphabet of the model.  A capture shows the opcodes of one program:
\* JSR abs + LDA #, BRK + LDA #, BPL + BRA, BBR0 + NOP, RTI + RTS,
\* JMP abs + JMP (ind).
Programs == {{32, 169}, {0, 169}, {16, 128}, {15, 234}, {64, 96}, {76, 108}}
FetchBytes == UNION Programs
\* The bytes read, the bytes written, and samples with one data line unassigned.
ReadBytes == {66, 251}
WriteBytes == {85}

\* The fetch strobe is set on reads, and on one sample whose read/write
\* line signals a write.
FetchSamples == {PinsOf(b, 1, 1) : b \in FetchBytes} \cup {PinsOf(234, 0, 1)}
ReadSamples == {PinsOf(b, 1, 0) : b \in ReadBytes}
WriteSamples == {PinsOf(b, 0, 0) : b \in WriteBytes}
UnassignedSamples ==
    {[PinsOf(66, 1, sync) EXCEPT ![4] = Unassigned] : sync \in {0, 1}}

Samples == FetchSamples \cup ReadSamples \cup WriteSamples \cup UnassignedSamples

\* bus_data = reduce_bus(pins[Pin.D0:Pin.D7+1]), tabulated over the alphabet.
bus_data_of == [pins \in Samples |-> reduce_bus(DataPins(pins))]

(***************************************************************************)
(* State.                                                                  *)
(***************************************************************************)
VARIABLES
    program,      \* the opcodes the captured program executes
    status,       \* "running", "crashed" (an exception left decode()), "ended"
    error,        \* the exception that ended decode(), "" when none
    samplenum,    \* self.samplenum: number of the sample wait() returned last
    last_fetch, opcount, cycle, mnemonic, opcode, op1, op2,
    write_count, pc, next_pc,   \* locals of Decoder.decode
    len, fmt,     \* locals of decode bound at the first fetch
    ann_data,     \* last annotation put on the data bus row
    ann_cycle,    \* last annotation put on the cycle row
    ann_instr,    \* last annotation put on the instructions row
    ann_count,    \* number of annotations put on each row so far
    delivered,    \* history: the sample wait() returned last
    span,         \* history: the samples since (and with) the last fetch
    retired,      \* history: what the last fetch sample found: the number
                  \* of fetch samples so far, the span and the PC before it,
                  \* whether it put an instruction annotation
    em,           \* tables.em, the module-level Emulator instance
    snapshot,     \* what the last call on em returned: the string of
                  \* get_state (with the history of what it followed),
                  \* nothing for a transfer function
    em_calls,     \* number of transfer functions applied to em so far
    pending       \* history: 0 no store has contradicted a known register
                  \* since the last get_state, 1 the last call was such a
                  \* store, 2 other calls followed one

dvars == <<program, status, error, samplenum, last_fetch, opcount, cycle, mnemonic,
           opcode, op1, op2, write_count, pc, next_pc, len, fmt>>
avars == <<ann_data, ann_cycle, ann_instr, ann_count>>
hvars == <<delivered, span, retired>>
evars == <<em, snapshot, em_calls, pending>>
vars == <<dvars, avars, hvars, evars>>

NoAnn == [ss |-> -1, es |-> -1, ann |-> -1, text |-> ""]

\* class Emulator: the class attributes every instance starts from.
EmulatorInit ==
    [A |-> -1, X |-> -1, Y |-> -1, S |-> -1,
     N |-> -1, V |-> -1, D |-> -1, I |-> -1, Z |-> -1, C |-> -1,
     failflag |-> 0]

(***************************************************************************)
(* Decoder.decode: the state before the loop.  len and fmt are unbound     *)
(* until the first fetch, and are not read before it: the first fetch sees *)
(* opcode = 0 and last_fetch = -1.                                         *)
(***************************************************************************)
DecodeInit ==
    /\ program \in Programs
    /\ status = "running"
    /\ error = ""
    /\ samplenum = -1
    /\ last_fetch = -1
    /\ opcount = 0
    /\ cycle = MEMRD
    /\ mnemonic = "???"
    /\ opcode = 0
    /\ op1 = 0
    /\ op2 = 0
    /\ write_count = 0
    /\ pc = -1
    /\ next_pc = -1
    /\ len = 0
    /\ fmt = <<>>
    /\ ann_data = NoAnn
    /\ ann_cycle = NoAnn
    /\ ann_instr = NoAnn
    /\ ann_count = [data |-> 0, cycle |-> 0, instr |-> 0]
    /\ delivered = <<>>
    /\ span = <<>>
    /\ retired = [fetches |-> 0, span |-> <<>>, pc |-> -1, emitted |-> FALSE]

\* No string returned: before any call, and after a transfer function.
NoSnapshot == [text |-> "", after |-> 0]

\* em = Emulator() at the import of tables.py
EmInit ==
    /\ em = EmulatorInit
    /\ snapshot = NoSnapshot
    /\ em_calls = 0
    /\ pending = 0

Init == DecodeInit /\ EmInit

(***************************************************************************)
(* Decoder.decode: one iteration of the loop per delivered sample.         *)
(***************************************************************************)
\* pins = self.wait() returns the next sample while the capture lasts.
Delivers(pins) ==
    /\ status = "running"
    /\ samplenum + 1 < MaxSamples
    /\ pins \in Samples
    /\ PinAt(pins, PinSYNC) = 1 /\ bus_data_of[pins] # None => bus_data_of[pins] \in program
    /\ samplenum' = samplenum + 1
    /\ delivered' = pins
    /\ UNCHANGED program

\* self.put(self.samplenum, self.samplenum + 1, self.out_ann,
\*          [Ann.DATA, [format(bus_data, '02x')]])
PutData(bus_data) ==
    ann_data' = [ss |-> samplenum + 1, es |-> samplenum + 2, ann |-> AnnDATA,
                 text |-> FormatHex(bus_data, 2, FALSE)]

\* self.put(self.samplenum, self.samplenum + 1, self.out_ann,
\*          [cycle_to_ann_map[cycle], [cycle_to_name_map[cycle]]])
PutCycle(c) ==
    ann_cycle' = [ss |-> samplenum + 1, es |-> samplenum + 2,
                  ann |-> cycle_to_ann_map(c), text |-> cycle_to_name_map(c)]

\* The history of the span in progress: nothing is kept before the first fetch.
Seen(pins, bus_data, c) ==
    [num |-> samplenum + 1, sync |-> PinAt(pins, PinSYNC),
     rnw |-> PinAt(pins, PinRNW), data |-> bus_data, cycle |-> c]

Extend(pins, bus_data, c) ==
    span' = IF span = <<>> THEN <<>> ELSE Append(span, Seen(pins, bus_data, c))

\* format(bus_data, '02x') raises TypeError for bus_data = None: the
\* exception leaves decode() before anything is put for the sample.
DataFormatFails(pins) ==
    /\ Delivers(pins)
    /\ bus_data_of[pins] = None
    /\ status' = "crashed"
    /\ error' = TypeError
    /\ UNCHANGED <<last_fetch, opcount, cycle, mnemonic, opcode, op1, op2,
                   write_count, pc, next_pc, len, fmt>>
    /\ UNCHANGED <<avars, span, retired, evars>>

\* if (last_fetch > 0):
Finalizes(lf) == lf > 0

\* The interrupt test without its opcode condition.
IsInterrupt_AnyOpcode(wc, opc) == wc = 3

\* The interrupt test with its opcode condition turned around.
IsInterrupt_ZeroOpcode(wc, opc) == wc = 3 /\ opc = 0

\* if write_count == 3 and opcode != 0:
IsInterrupt(wc, opc) == wc = 3 /\ opc # 0

\* format(pc, '04x') + ': ' + 'INT!'
InterruptText(p) == FormatHex(p, 4, FALSE) \o ": " \o "INT!"

\* format(pc, '04x') + ': ' + fmt.format(mnemonic, op1, op2)
InstrText(p, f, mn, o1, o2) ==
    LET body == StrFormat(f, <<mn, o1, o2>>)
    IN [ok |-> body.ok, text |-> FormatHex(p, 4, FALSE) \o ": " \o body.text]

\* The PC rules with the operands of JSR and JMP taken in the other order.
NextPC_OperandsSwapped(opc, o1, o2, wc, p, npc, l, dist) ==
    IF opc = 64 \/ opc = 0 \/ opc = 108 \/ opc = 124 \/ wc = 3
    THEN BitAnd(Shr(npc, 8), 65535)
    ELSE IF opc = 32 \/ opc = 76
    THEN BitOr(Shl(o1, 8), o2)
    ELSE IF BitAnd(opc, 31) = 16 /\ dist # 2
    THEN p + signed_byte(o1) + 2
    ELSE IF opc = 96
    THEN BitAnd(npc + 1, 65535)
    ELSE p + l

\* The PC rules with the return address of RTS left unmasked.
NextPC_RtsUnmasked(opc, o1, o2, wc, p, npc, l, dist) ==
    IF opc = 64 \/ opc = 0 \/ opc = 108 \/ opc = 124 \/ wc = 3
    THEN BitAnd(Shr(npc, 8), 65535)
    ELSE IF opc = 32 \/ opc = 76
    THEN BitOr(Shl(o2, 8), o1)
    ELSE IF BitAnd(opc, 31) = 16 /\ dist # 2
    THEN p + signed_byte(o1) + 2
    ELSE IF opc = 96
    THEN npc + 1
    ELSE p + l

\* Look for control flow changes and update the PC
NextPC(opc, o1, o2, wc, p, npc, l, dist) ==
    IF opc = 64 \/ opc = 0 \/ opc = 108 \/ opc = 124 \/ wc = 3
    THEN BitAnd(Shr(npc, 8), 65535)
    ELSE IF opc = 32 \/ opc = 76
    THEN BitOr(Shl(o2, 8), o1)
    ELSE IF BitAnd(opc, 31) = 16 /\ dist # 2
    THEN p + signed_byte(o1) + 2
    ELSE IF opc = 96
    THEN BitAnd(npc + 1, 65535)
    ELSE p + l

\* if pins[Pin.SYNC] == 1: finalize the previous instruction, update the
\* PC, load the descriptor of the fetched opcode.  fmt.format raising
\* IndexError leaves decode() after the data annotation was put.
FetchCycle(pins) ==
    /\ Delivers(pins)
    /\ bus_data_of[pins] # None
    /\ PinAt(pins, PinSYNC) = 1
    /\ LET bus_data == bus_data_of[pins]
           sn == samplenum + 1
           line == InstrText(pc, fmt, mnemonic, op1, op2)
           intr == IsInterrupt(write_count, opcode)
           fails == Finalizes(last_fetch) /\ ~intr /\ ~line.ok
           instr == InstrOf(bus_data)
           entry == addr_mode_len_map(instr[2])
       IN /\ PutData(bus_data)
          /\ ann_count' = [ann_count EXCEPT
                             !.data = @ + 1,
                             !.cycle = IF fails THEN @ ELSE @ + 1,
                             !.instr = IF Finalizes(last_fetch) /\ ~fails THEN @ + 1 ELSE @]
          /\ IF fails
             THEN /\ status' = "crashed"
                  /\ error' = IndexError
                  /\ UNCHANGED <<last_fetch, opcount, cycle, mnemonic, opcode, op1,
                                 op2, write_count, pc, next_pc, len, fmt>>
                  /\ retired' = [fetches |-> retired.fetches + 1, span |-> span,
                                 pc |-> pc, emitted |-> FALSE]
                  /\ UNCHANGED <<ann_cycle, ann_instr, span>>
             ELSE /\ ann_instr' =
                        IF Finalizes(last_fetch)
                        THEN [ss |-> last_fetch, es |-> sn, ann |-> AnnINSTR,
                              text |-> IF intr THEN InterruptText(pc) ELSE line.text]
                        ELSE ann_instr
                  /\ pc' = NextPC(opcode, op1, op2, write_count, pc, next_pc, len,
                                  sn - last_fetch)
                  /\ last_fetch' = sn
                  /\ cycle' = FETCH
                  /\ opcode' = bus_data
                  /\ mnemonic' = instr[1]
                  /\ len' = entry[1]
                  /\ fmt' = entry[2]
                  /\ opcount' = entry[1] - 1
                  /\ write_count' = 0
                  /\ next_pc' = 0
                  /\ PutCycle(FETCH)
                  /\ retired' = [fetches |-> retired.fetches + 1, span |-> span,
                                 pc |-> pc, emitted |-> Finalizes(last_fetch)]
                  /\ span' = <<Seen(pins, bus_data, FETCH)>>
                  /\ UNCHANGED <<status, error, op1, op2>>
    /\ UNCHANGED evars

\* The write branch with the write counter left alone.
WriteCycle_Uncounted(pins) ==
    /\ Delivers(pins)
    /\ bus_data_of[pins] # None
    /\ PinAt(pins, PinSYNC) # 1
    /\ PinAt(pins, PinRNW) = 0
    /\ PutData(bus_data_of[pins])
    /\ cycle' = MEMWR
    /\ PutCycle(MEMWR)
    /\ ann_count' = [ann_count EXCEPT !.data = @ + 1, !.cycle = @ + 1]
    /\ Extend(pins, bus_data_of[pins], MEMWR)
    /\ UNCHANGED <<status, error, last_fetch, opcount, mnemonic, opcode, op1, op2,
                   write_count, pc, next_pc, len, fmt, ann_instr, retired, evars>>

\* elif pins[Pin.RNW] == 0:
WriteCycle(pins) ==
    /\ Delivers(pins)
    /\ bus_data_of[pins] # None
    /\ PinAt(pins, PinSYNC) # 1
    /\ PinAt(pins, PinRNW) = 0
    /\ PutData(bus_data_of[pins])
    /\ cycle' = MEMWR
    /\ write_count' = write_count + 1
    /\ PutCycle(MEMWR)
    /\ ann_count' = [ann_count EXCEPT !.data = @ + 1, !.cycle = @ + 1]
    /\ Extend(pins, bus_data_of[pins], MEMWR)
    /\ UNCHANGED <<status, error, last_fetch, opcount, mnemonic, opcode, op1, op2,
                   pc, next_pc, len, fmt, ann_instr, retired, evars>>

\* elif cycle == Cycle.FETCH and opcount > 0:
Operand1Cycle(pins) ==
    /\ Delivers(pins)
    /\ bus_data_of[pins] # None
    /\ PinAt(pins, PinSYNC) # 1
    /\ PinAt(pins, PinRNW) # 0
    /\ cycle = FETCH /\ opcount > 0
    /\ PutData(bus_data_of[pins])
    /\ cycle' = OP1
    /\ opcount' = opcount - 1
    /\ op1' = bus_data_of[pins]
    /\ PutCycle(OP1)
    /\ ann_count' = [ann_count EXCEPT !.data = @ + 1, !.cycle = @ + 1]
    /\ Extend(pins, bus_data_of[pins], OP1)
    /\ UNCHANGED <<status, error, last_fetch, mnemonic, opcode, op2, write_count,
                   pc, next_pc, len, fmt, ann_instr, retired, evars>>

\* elif cycle == Cycle.OP1 and opcount > 0:
\*     JSR is <opcode> <op1> <dummy stack rd> <stack wr> <stack wr> <op2>
Operand2Cycle(pins) ==
    /\ Delivers(pins)
    /\ bus_data_of[pins] # None
    /\ PinAt(pins, PinSYNC) # 1
    /\ PinAt(pins, PinRNW) # 0
    /\ ~(cycle = FETCH /\ opcount > 0)
    /\ cycle = OP1 /\ opcount > 0
    /\ PutData(bus_data_of[pins])
    /\ IF opcode = 32
       THEN /\ cycle' = MEMRD
            /\ PutCycle(MEMRD)
            /\ Extend(pins, bus_data_of[pins], MEMRD)
            /\ UNCHANGED <<opcount, op2>>
       ELSE /\ cycle' = OP2
            /\ opcount' = opcount - 1
            /\ op2' = bus_data_of[pins]
            /\ PutCycle(OP2)
            /\ Extend(pins, bus_data_of[pins], OP2)
    /\ ann_count' = [ann_count EXCEPT !.data = @ + 1, !.cycle = @ + 1]
    /\ UNCHANGED <<status, error, last_fetch, mnemonic, opcode, op1, write_count,
                   pc, next_pc, len, fmt, ann_instr, retired, evars>>

\* The fold of a read into next_pc without the shift of the bytes held.
FoldRead_NoShift(npc, bus_data) == BitOr(npc, Shl(bus_data, 16))

\* next_pc = (next_pc >> 8) | (bus_data << 16)
FoldRead(npc, bus_data) == BitOr(Shr(npc, 8), Shl(bus_data, 16))

\* else: the JSR operand 2, or a memory read folded into next_pc
ReadCycle(pins) ==
    /\ Delivers(pins)
    /\ bus_data_of[pins] # None
    /\ PinAt(pins, PinSYNC) # 1
    /\ PinAt(pins, PinRNW) # 0
    /\ ~(cycle = FETCH /\ opcount > 0)
    /\ ~(cycle = OP1 /\ opcount > 0)
    /\ PutData(bus_data_of[pins])
    /\ IF opcode = 32
       THEN /\ cycle' = OP2
            /\ opcount' = opcount - 1
            /\ op2' = bus_data_of[pins]
            /\ PutCycle(OP2)
            /\ Extend(pins, bus_data_of[pins], OP2)
            /\ UNCHANGED next_pc
       ELSE /\ cycle' = MEMRD
            /\ next_pc' = FoldRead(next_pc, bus_data_of[pins])
            /\ PutCycle(MEMRD)
            /\ Extend(pins, bus_data_of[pins], MEMRD)
            /\ UNCHANGED <<opcount, op2>>
    /\ ann_count' = [ann_count EXCEPT !.data = @ + 1, !.cycle = @ + 1]
    /\ UNCHANGED <<status, error, last_fetch, mnemonic, opcode, op1, write_count,
                   pc, len, fmt, ann_instr, retired, evars>>

\* The harness stops delivering samples: wait() never returns to the loop
\* again, and decode() holds no code that runs after the loop.
EndOfCapture ==
    /\ status = "running"
    /\ status' = "ended"
    /\ UNCHANGED <<program, error, samplenum, last_fetch, opcount, cycle, mnemonic, opcode,
                   op1, op2, write_count, pc, next_pc, len, fmt>>
    /\ UNCHANGED <<avars, hvars, evars>>

Next ==
    \/ \E pins \in Samples : DataFormatFails(pins)
    \/ \E pins \in Samples : FetchCycle(pins)
    \/ \E pins \in Samples : WriteCycle(pins)
    \/ \E pins \in Samples : Operand1Cycle(pins)
    \/ \E pins \in Samples : Operand2Cycle(pins)
    \/ \E pins \in Samples : ReadCycle(pins)
    \/ EndOfCapture

Spec == Init /\ [][Next]_vars

(***************************************************************************)
(* The Emulator on its own: transfer functions and get_state applied to a  *)
(* register model in any order.  decode() never calls the emulator, so the *)
(* decoder stays in its initial state here.                                *)
(***************************************************************************)
\* Number of transfer functions applied.
MaxEmCalls == 2

\* The operand bytes applied.
Operands == {0, 66, 255}

\* Register models the calls start from: the model after construction, and
\* two that loads, TXS and PLP lead to.
EmStart ==
    {EmulatorInit,
     [A |-> 66, X |-> 0, Y |-> 128, S |-> 255,
      N |-> 0, V |-> 0, D |-> 0, I |-> 1, Z |-> 0, C |-> 1, failflag |-> 0],
     [A |-> 255, X |-> -1, Y |-> -1, S |-> 0,
      N |-> 1, V |-> -1, D |-> -1, I |-> -1, Z |-> 0, C |-> -1, failflag |-> 0]}

EmOnlyInit ==
    /\ DecodeInit
    /\ program = {32, 169}
    /\ em \in EmStart
    /\ snapshot = NoSnapshot
    /\ em_calls = 0
    /\ pending = 0

\* The register a store-class transfer function checks the operand against.
StoreRegister(fn) ==
    CASE fn \in {"op_STA", "op_PHA"} -> "A"
      [] fn \in {"op_STX", "op_PHX"} -> "X"
      [] fn \in {"op_STY", "op_PHY"} -> "Y"
      [] OTHER -> ""

\* The call stores an operand that differs from the known register.
Contradicts(e, fn, operand) ==
    /\ StoreRegister(fn) # ""
    /\ e[StoreRegister(fn)] >= 0
    /\ operand # e[StoreRegister(fn)]

\* em.<fn>(operand)
Apply(fn, operand) ==
    /\ em_calls < MaxEmCalls
    /\ em' = Call(fn, em, operand)
    /\ em_calls' = em_calls + 1
    /\ pending' = IF Contradicts(em, fn, operand) THEN 1
                  ELSE IF pending > 0 THEN 2 ELSE 0
    /\ snapshot' = NoSnapshot
    /\ UNCHANGED <<dvars, avars, hvars>>

\* em.get_state()
GetState ==
    /\ snapshot' = [text |-> get_state(em).text, after |-> pending]
    /\ em' = get_state(em).em
    /\ pending' = 0
    /\ UNCHANGED <<em_calls, dvars, avars, hvars>>

EmNext ==
    \/ \E fn \in TransferFunctions, operand \in Operands : Apply(fn, operand)
    \/ GetState

SpecEm == EmOnlyInit /\ [][EmNext]_vars

(***************************************************************************)
(* Properties.  The history variables span and retired give the samples of *)
(* an instruction as the bus showed them, so a property states what the    *)
(* decoder made of a bus sequence.                                         *)
(***************************************************************************)
IsFetchOf(s, b) == s.sync = 1 /\ s.data = b
IsRead(s) == s.sync = 0 /\ s.rnw = 1
IsWrite(s) == s.sync = 0 /\ s.rnw = 0
CyclesOf(sp) == [i \in 1..Len(sp) |-> sp[i].cycle]
WritesIn(sp) == Cardinality({i \in 1..Len(sp) : IsWrite(sp[i])})
MnemonicOf(b) == InstrOf(b)[1]
ModeOf(b) == InstrOf(b)[2]
LengthOf(b) == addr_mode_len_map(ModeOf(b))[1]
TemplateOf(b) == addr_mode_len_map(ModeOf(b))[2]

\* The bytes an operand can hold: its initial value and the bytes read.
OperandBytes == {0} \cup ReadBytes

\* The operand bytes read in a span, 0 where the span has none.
Operand1Of(sp) == IF Len(sp) >= 2 THEN sp[2].data ELSE 0
Operand2Of(sp) == IF Len(sp) >= 3 THEN sp[3].data ELSE 0

\* fetch(0x20), read(lo), read, write, write, read(hi)
JsrSpan(sp) ==
    /\ Len(sp) = 6
    /\ IsFetchOf(sp[1], 32)
    /\ IsRead(sp[2]) /\ IsRead(sp[3])
    /\ IsWrite(sp[4]) /\ IsWrite(sp[5])
    /\ IsRead(sp[6])

\* C1: the six samples fetch(0x20), read(lo), read, write, write, read(hi)
\* are classified Fetch, Operand1, MemoryRead, MemoryWrite, MemoryWrite,
\* Operand2, while the span is in progress and when it is retired, and the
\* fetch that retires them leaves the program counter at (hi<<8)|lo.
C1_JsrCyclesAndTarget ==
    /\ JsrSpan(span) => CyclesOf(span) = <<FETCH, OP1, MEMRD, MEMWR, MEMWR, OP2>>
    /\ (retired.fetches > 0 /\ JsrSpan(retired.span)) =>
          /\ CyclesOf(retired.span) = <<FETCH, OP1, MEMRD, MEMWR, MEMWR, OP2>>
          /\ pc = retired.span[6].data * 256 + retired.span[2].data

\* A call with lo = 0x42 and hi = 0xFB was retired to 0xFB42.
C1_JsrRetired ==
    /\ retired.fetches > 0
    /\ JsrSpan(retired.span)
    /\ retired.span[2].data = 66
    /\ retired.span[6].data = 251
    /\ pc = 64322

\* A fetch of an opcode that is neither the call nor of an indirect mode,
\* followed by exactly length - 1 reads.
PlainSpan(sp) ==
    /\ Len(sp) >= 1
    /\ sp[1].sync = 1
    /\ sp[1].data # 32
    /\ ModeOf(sp[1].data) \notin {INDX, INDY, IND, IND16, IND1X}
    /\ Len(sp) = LengthOf(sp[1].data)
    /\ \A i \in 2..Len(sp) : IsRead(sp[i])

\* The text of a span: the PC, the mnemonic and the operand bytes of the
\* span laid out per the template of the addressing mode.
LineOf(sp, p) ==
    InstrText(p, TemplateOf(sp[1].data), MnemonicOf(sp[1].data),
              Operand1Of(sp), Operand2Of(sp))

\* C2: the next fetch after a fetch of a non-call, non-indirect opcode and
\* exactly length - 1 reads puts one instruction annotation, from the fetch
\* up to the next fetch, whose text is the PC, the mnemonic and the operand
\* bytes of the span per the template.
C2_RoundTrip ==
    (retired.fetches > 0 /\ PlainSpan(retired.span)) =>
        /\ retired.emitted
        /\ LineOf(retired.span, retired.pc).ok
        /\ ann_instr = [ss |-> retired.span[1].num,
                        es |-> retired.span[1].num + LengthOf(retired.span[1].data),
                        ann |-> AnnINSTR,
                        text |-> LineOf(retired.span, retired.pc).text]

\* C3: every fetch sample but the first one puts exactly one instruction
\* annotation, and the first one puts none, wherever the first fetch is.
C3_OnePerLaterFetch ==
    retired.fetches > 0 =>
        /\ retired.emitted <=> retired.fetches > 1
        /\ ann_count.instr = retired.fetches - 1

\* C4: once the capture has ended after a fetch, an instruction annotation
\* was put for the instruction fetched last.
C4_FlushAtEnd ==
    (status = "ended" /\ span # <<>>) =>
        /\ ann_instr.ann = AnnINSTR
        /\ ann_instr.ss = span[1].num

\* C5: the instruction annotation a fetch puts holds the interrupt marker
\* exactly when the span it finalizes holds three writes and its opcode is
\* not zero; otherwise it holds the mnemonic of that opcode, laid out per
\* its template.
C5_InterruptMarker ==
    retired.emitted =>
        LET prev == retired.span[1].data
            marked == ann_instr.text = InterruptText(retired.pc)
        IN /\ marked <=> (WritesIn(retired.span) = 3 /\ prev # 0)
           /\ ~marked =>
                 \E o1, o2 \in OperandBytes :
                    ann_instr.text = InstrText(retired.pc, TemplateOf(prev),
                                               MnemonicOf(prev), o1, o2).text

\* A span of a nonzero opcode with three writes was marked as an interrupt.
C5_InterruptMarked ==
    /\ retired.emitted
    /\ retired.span[1].data # 0
    /\ WritesIn(retired.span) = 3
    /\ ann_instr.text = InterruptText(retired.pc)
    /\ ann_instr.ss = retired.span[1].num

\* C6: when the decoder retires a relative branch whose fetch only reads
\* follow, the PC becomes the old PC + 2 if the next fetch arrives 2 samples
\* after the fetch of the branch, and the old PC + signed(operand1) + 2 if
\* it arrives later.
C6_BranchTarget ==
    (/\ retired.fetches > 0
     /\ status # "crashed"
     /\ Len(retired.span) >= 2
     /\ ModeOf(retired.span[1].data) = BRA
     /\ \A i \in 2..Len(retired.span) : IsRead(retired.span[i])) =>
        pc = IF Len(retired.span) = 2
             THEN retired.pc + 2
             ELSE retired.pc + signed_byte(retired.span[2].data) + 2

\* The template of a relative mode filled with the branch target.
RelativeLineOf(sp, p) ==
    LET target == FormatHex((p + signed_byte(Operand1Of(sp)) + 2) % 65536, 4, TRUE)
        body == StrFormat(TemplateOf(sp[1].data),
                          <<MnemonicOf(sp[1].data), Operand1Of(sp), Operand2Of(sp), target>>)
    IN FormatHex(p, 4, FALSE) \o ": " \o body.text

\* C7: the fetch after an instruction of a relative mode and its operand
\* bytes (one that is not taken for an interrupt, and whose fetch is not the
\* sample 0) puts an instruction annotation with the branch target in its
\* text, and the decoder goes on.
C7_RelativeFinalized ==
    (/\ retired.fetches > 0
     /\ retired.span # <<>>
     /\ retired.span[1].num > 0
     /\ ModeOf(retired.span[1].data) \in {BRA, ZPR}
     /\ Len(retired.span) >= LengthOf(retired.span[1].data)
     /\ \A i \in 2..LengthOf(retired.span[1].data) : IsRead(retired.span[i])
     /\ WritesIn(retired.span) # 3) =>
        /\ status # "crashed"
        /\ retired.emitted
        /\ ann_instr.ss = retired.span[1].num
        /\ ann_instr.text = RelativeLineOf(retired.span, retired.pc)

\* A data line of the sample reports no level.
Indeterminate(pins) == \E i \in 1..8 : pins[i] = Unassigned

\* The texts format(b, '02x') gives for a byte.
ByteTexts == {FormatHex(b, 2, FALSE) : b \in 0..255}

\* C8: a sample with an indeterminate data line is processed: a data
\* annotation that shows no number and a cycle annotation are put for it,
\* and the decoder is not stopped.
C8_IndeterminateProcessed ==
    (delivered # <<>> /\ Indeterminate(delivered)) =>
        /\ status # "crashed"
        /\ ann_data.ss = samplenum /\ ann_data.es = samplenum + 1
        /\ ann_data.text \notin ByteTexts
        /\ ann_cycle.ss = samplenum /\ ann_cycle.es = samplenum + 1

\* fetch 0xA9, read 0x42
LdaSpan(sp) == Len(sp) = 2 /\ IsFetchOf(sp[1], 169) /\ IsRead(sp[2]) /\ sp[2].data = 66

\* C9: once the fetch after fetch 0xA9, read 0x42 has retired the
\* instruction, the instruction annotation reads LDA #42 and the snapshot of
\* the emulator shows A = 42, N = 0, Z = 0.
C9_LdaImmediate ==
    (retired.fetches > 0 /\ LdaSpan(retired.span) /\ retired.span[1].num > 0) =>
        /\ retired.emitted
        /\ ann_instr.text = FormatHex(retired.pc, 4, FALSE) \o ": LDA #42"
        /\ get_state(em).text = StateText([em EXCEPT !.A = 66, !.N = 0, !.Z = 0])

\* The transfer functions that store a register.
StoreClass == {"op_STA", "op_STX", "op_STY", "op_PHA", "op_PHX", "op_PHY"}

\* A transfer function was applied in the step.
Applied == em_calls' = em_calls + 1

\* get_state was called in the step.
Snapshot == em_calls' = em_calls /\ snapshot' # NoSnapshot

\* C10: a store (STA, STX, STY, PHA, PHX, PHY) of an operand that differs
\* from the known register sets the failure flag and the register takes the
\* operand; a store to an unknown or a matching register leaves the flag as
\* it is; no transfer function clears the flag; the snapshot reports the
\* failure exactly when the flag is set and clears it, so the snapshot that
\* follows a mismatch reports it, whatever was applied in between, and a
\* second snapshot reports none.
C10_StickyFailure ==
    /\ [](pending > 0 => em.failflag = 1)
    /\ [](snapshot # NoSnapshot =>
            /\ em.failflag = 0
            /\ snapshot.text = StateText(em) \o
                   (IF snapshot.after > 0 THEN " prediction failed" ELSE "")
            /\ get_state(em).text = StateText(em))
    /\ [][/\ Applied =>
               /\ em.failflag = 1 => em'.failflag = 1
               /\ \A fn \in StoreClass, operand \in Operands :
                     (em'[StoreRegister(fn)] = operand /\ em' = Call(fn, em, operand)) =>
                        LET reg == StoreRegister(fn)
                        IN IF em[reg] >= 0 /\ operand # em[reg]
                           THEN em'.failflag = 1 /\ em'[reg] = operand
                           ELSE em'.failflag = em.failflag /\ em'[reg] = operand
          /\ Snapshot =>
               /\ snapshot'.text = StateText(em) \o
                      (IF em.failflag = 1 THEN " prediction failed" ELSE "")
               /\ em'.failflag = 0]_vars

\* A snapshot reported the failure of a store that other transfer functions
\* had followed.
C10_FailureReported ==
    /\ snapshot.after = 2
    /\ snapshot.text = StateText(em) \o " prediction failed"
    /\ em.failflag = 0

\* Every register and every flag of the model is unknown.
AllUnknown(e) ==
    \A r \in {"A", "X", "Y", "S", "N", "V", "D", "I", "Z", "C"} : e[r] = -1

\* The transfer functions that load a register from the operand.
LoadClass == {"op_LDA", "op_LDX", "op_LDY", "op_PLA", "op_PLX", "op_PLY"}

\* The transfer functions that compute from registers and flags only, or
\* only when the registers they read are known.
RegisterOnly ==
    {"op_ADC", "op_AND", "op_ASLA", "op_BIT_IMM", "op_CMP", "op_CPX", "op_CPY",
     "op_DECA", "op_DEX", "op_DEY", "op_EOR", "op_INCA", "op_INX", "op_INY",
     "op_JSR", "op_LSRA", "op_ORA", "op_ROLA", "op_ROL", "op_RORA", "op_ROR",
     "op_RTS", "op_SBC", "op_TAX", "op_TAY", "op_TSB_TRB", "op_TSX", "op_TXA",
     "op_TXS", "op_TYA"}

\* C11 as stated: a transfer function other than a load applied to the
\* all-unknown model leaves every register and every flag unknown.
C11_UnknownStaysUnknown ==
    [][(/\ Applied
        /\ AllUnknown(em)
        /\ \E fn \in TransferFunctions \ LoadClass, operand \in Operands :
              em' = Call(fn, em, operand)) => AllUnknown(em')]_vars

\* C11 amended: the transfer functions that compute from registers and
\* flags only leave the all-unknown model all unknown; every other one
\* (loads, stores and pushes, flag set/clear, memory shifts and counts, BIT,
\* PHP, PLP, RTI, BRK, interrupt) makes a register or a flag known from the
\* operand or from a constant.
C11_RegisterOnlyStayUnknown ==
    [][(Applied /\ AllUnknown(em)) =>
          /\ AllUnknown(em') <=>
                \E fn \in RegisterOnly, operand \in Operands : em' = Call(fn, em, operand)
          /\ \A fn \in TransferFunctions \ RegisterOnly, operand \in Operands :
                ~AllUnknown(Call(fn, em, operand))]_vars

\* A transfer function was applied to the all-unknown model and left it so.
C11_StillUnknown == em_calls = 1 /\ AllUnknown(em) /\ em.failflag = 0

\* The change of the stack pointer C12 gives for each stack operation.
StackDelta(fn) ==
    CASE fn \in {"op_PHA", "op_PHP", "op_PHX", "op_PHY"} -> -1
      [] fn \in {"op_PLA", "op_PLP", "op_PLX", "op_PLY"} -> 1
      [] fn = "op_JSR" -> -2
      [] fn = "op_RTS" -> 2
      [] fn \in {"op_BRK", "interrupt"} -> -3
      [] fn = "op_RTI" -> 3

StackOps ==
    {"op_PHA", "op_PHP", "op_PHX", "op_PHY", "op_PLA", "op_PLP", "op_PLX", "op_PLY",
     "op_JSR", "op_RTS", "op_BRK", "interrupt", "op_RTI"}

\* An operation on the stack and the one that undoes it.
StackPairs ==
    {<<"op_PHA", "op_PLA">>, <<"op_PHP", "op_PLP">>, <<"op_PHX", "op_PLX">>,
     <<"op_PHY", "op_PLY">>, <<"op_JSR", "op_RTS">>, <<"op_BRK", "op_RTI">>,
     <<"interrupt", "op_RTI">>}

\* A transfer function can be applied to the model in this state.
CanApply == em_calls < MaxEmCalls

\* C12: wherever a transfer function can be applied, each stack operation
\* moves a known stack pointer by its byte count modulo 256 (pushes -1,
\* pulls +1, JSR -2, RTS +2, BRK and interrupt -3, RTI +3) and leaves an
\* unknown one unknown, so an operation followed by the one that undoes it
\* restores the stack pointer.
C12_StackPointer ==
    CanApply =>
    /\ \A fn \in StackOps, operand \in Operands :
          Call(fn, em, operand).S =
              IF em.S >= 0 THEN (em.S + StackDelta(fn)) % 256 ELSE -1
    /\ \A pair \in StackPairs :
          Call(pair[2], Call(pair[1], em, 66), 66).S = em.S

\* One call moved the stack pointer from 0xFF to 0xFE.
C12_Pushed == em_calls = 1 /\ em.S = 254 /\ em.A = 66

\* The operand bytes captured in a span: its Operand1 and Operand2 cycles.
OperandsIn(sp) == Cardinality({i \in 1..Len(sp) : sp[i].cycle \in {OP1, OP2}})

\* C13: the cycle phase is one of the five phases, the remaining-operand
\* counter stays between 0 and length - 1, and no more than length - 1
\* operand bytes are captured since the last fetch.
C13_PhaseAndOperandBounds ==
    /\ cycle \in {FETCH, OP1, OP2, MEMRD, MEMWR}
    /\ opcount >= 0
    /\ span # <<>> =>
          /\ opcount <= LengthOf(span[1].data) - 1
          /\ OperandsIn(span) <= LengthOf(span[1].data) - 1

\* The fetch found a span of a fetch of 0x00 with three writes and put an
\* instruction annotation for it.
BreakSpanReported ==
    /\ retired.emitted
    /\ retired.span[1].data = 0
    /\ WritesIn(retired.span) = 3

AddrModes ==
    {IMP, IMPA, BRA, IMM, ZP, ZPX, ZPY, INDX, INDY, IND, ABS, ABSX, ABSY,
     IND16, IND1X, ZPR}

\* Every byte has one descriptor, of a mode of the table and of a length of
\* 1, 2 or 3 bytes.
TablesWellFormed ==
    /\ Len(instr_table) = 256
    /\ Cardinality(AddrModes) = 16
    /\ \A m \in AddrModes : addr_mode_len_map(m)[1] \in {1, 2, 3}
    /\ \A b \in 0..255 :
          /\ Len(InstrOf(b)) = 4
          /\ ModeOf(b) \in AddrModes
          /\ LengthOf(b) \in {1, 2, 3}

\* C15: the tables are total and well formed, so a fetch of a determinate
\* byte finds its descriptor: right after the fetch the mnemonic and the
\* length are those of the table row of the byte and the remaining-operand
\* count is the length - 1, that is 0, 1 or 2; no fetch fails on a lookup.
\* The tables are constants: they are looked at before the first sample.
C15_TablesTotal ==
    /\ samplenum = -1 => TablesWellFormed
    /\ error \in {"", IndexError, TypeError}
    /\ Len(span) = 1 =>
          /\ opcode = span[1].data
          /\ mnemonic = MnemonicOf(opcode)
          /\ len = LengthOf(opcode)
          /\ fmt = TemplateOf(opcode)
          /\ opcount = len - 1
          /\ opcount \in {0, 1, 2}

\* A fetch has just loaded the descriptor of a three-byte instruction.
C15_ThreeByteFetched == Len(span) = 1 /\ opcode = 15 /\ mnemonic = "BBR0" /\ opcount = 2

\* A fetch of a nonzero opcode, reads only, then exactly three writes and
\* two reads: the vector low byte and the vector high byte.
InterruptSpan(sp) ==
    /\ Len(sp) >= 6
    /\ sp[1].sync = 1 /\ sp[1].data # 0
    /\ LET n == Len(sp)
       IN /\ \A i \in 2..(n - 5) : IsRead(sp[i])
          /\ IsWrite(sp[n - 4]) /\ IsWrite(sp[n - 3]) /\ IsWrite(sp[n - 2])
          /\ IsRead(sp[n - 1]) /\ IsRead(sp[n])

\* C16: when the decoder retires a span of a nonzero opcode that holds
\* exactly three writes followed by the reads of the vector bytes lo and
\* hi, the PC becomes (hi<<8)|lo.
C16_InterruptVector ==
    (retired.fetches > 0 /\ status # "crashed" /\ InterruptSpan(retired.span)) =>
        pc = retired.span[Len(retired.span)].data * 256
                 + retired.span[Len(retired.span) - 1].data

\* The bytes of the cycles of a span classified MemoryRead, in order.
MemReadsOf(sp) ==
    LET at == {i \in 1..Len(sp) : sp[i].cycle = MEMRD}
        nth[k \in 1..Cardinality(at)] ==
            CHOOSE i \in at : Cardinality({j \in at : j <= i}) = k
    IN [k \in 1..Cardinality(at) |-> sp[nth[k]].data]

\* The opcodes whose PC is rebuilt from the bytes read: RTI, BRK, JMP (ind),
\* JMP (ind,X).
ReadDerived == {64, 0, 108, 124}

\* C17: next_pc is 0 right after a fetch; after n >= 2 MemoryRead cycles of
\* a span of a non-call opcode it holds the last byte read in bits 16..23
\* and the one before in bits 8..15; and when RTI, BRK, JMP (ind) or
\* JMP (ind,X) is retired after at least two MemoryRead cycles the PC is
\* (rn<<8)|r(n-1), within 0..0xFFFF.
C17_NextPcAccumulator ==
    /\ Len(span) = 1 => next_pc = 0
    /\ (span # <<>> /\ span[1].data # 32) =>
          LET r == MemReadsOf(span)
              n == Len(r)
          IN n >= 2 =>
                /\ (next_pc \div 65536) % 256 = r[n]
                /\ (next_pc \div 256) % 256 = r[n - 1]
    /\ (retired.fetches > 0 /\ retired.span # <<>> /\ status # "crashed"
            /\ retired.span[1].data \in ReadDerived) =>
          LET r == MemReadsOf(retired.span)
              n == Len(r)
          IN n >= 2 => pc = r[n] * 256 + r[n - 1] /\ pc \in 0..65535

\* RTI was retired after the reads 0x42, 0xFB, 0x42 to the PC 0x42FB.
C17_RtiRetired ==
    /\ retired.fetches > 0
    /\ retired.span # <<>>
    /\ retired.span[1].data = 64
    /\ MemReadsOf(retired.span) = <<66, 251, 66>>
    /\ pc = 17147

\* The bytes of the read samples that follow the fetch of a span, in order.
ReadsOf(sp) ==
    LET reads == SelectSeq(sp, IsRead)
    IN [k \in 1..Len(reads) |-> reads[k].data]

\* C18: when RTS (0x60) is retired after n >= 3 reads r1..rn and a number
\* of writes other than three, the PC becomes
\* (((r(n-1)<<8) | r(n-2)) + 1) & 0xFFFF.
C18_ReturnAddress ==
    (/\ retired.fetches > 0
     /\ status # "crashed"
     /\ retired.span # <<>>
     /\ retired.span[1].data = 96
     /\ WritesIn(retired.span) # 3
     /\ Len(ReadsOf(retired.span)) >= 3) =>
        LET r == ReadsOf(retired.span)
            n == Len(r)
        IN pc = ((r[n - 1] * 256 + r[n - 2]) + 1) % 65536

\* RTS was retired after the reads 0xFB, 0x42, 0xFB and one write to the PC
\* 0x42FC.
C18_RtsRetired ==
    /\ retired.fetches > 0
    /\ retired.span # <<>>
    /\ retired.span[1].data = 96
    /\ WritesIn(retired.span) = 1
    /\ ReadsOf(retired.span) = <<251, 66, 251>>
    /\ pc = 17148

\* The bytes that the reads of a span fold into the next-PC accumulator: the
\* memory reads, none of them for JSR, whose reads after the operand 1 are
\* the dummy stack read and the operand 2.
FoldedReadsOf(sp) == IF sp[1].data = 32 THEN <<>> ELSE MemReadsOf(sp)

\* The byte folded k reads before the last one of a span, 0 if the span has
\* no such read.
ReadBack(sp, k) ==
    LET r == FoldedReadsOf(sp)
    IN IF Len(r) > k THEN r[Len(r) - k] ELSE 0

\* A relative branch that was taken: its span is longer than two samples.
TakenBranch(sp) == ModeOf(sp[1].data) = BRA /\ Len(sp) > 2

\* The PC that the rules give to the span of a retiring instruction, in
\* their priority order.
RuledPC(sp, old, o1, o2) ==
    IF WritesIn(sp) = 3 \/ sp[1].data \in ReadDerived
    THEN ReadBack(sp, 0) * 256 + ReadBack(sp, 1)
    ELSE IF sp[1].data \in {32, 76}
    THEN o2 * 256 + o1
    ELSE IF TakenBranch(sp)
    THEN old + signed_byte(o1) + 2
    ELSE IF sp[1].data = 96
    THEN (ReadBack(sp, 1) * 256 + ReadBack(sp, 2) + 1) % 65536
    ELSE old + LengthOf(sp[1].data)

\* C19: the fetch that retires an instruction applies exactly one PC rule,
\* the first that matches in the order: read-derived (three writes, or
\* opcode 0x40, 0x00, 0x6C, 0x7C; also for JSR and JMP abs), operands (JSR,
\* JMP abs), taken relative branch, RTS, old PC + length.
C19_RulePriority ==
    (/\ retired.fetches > 0
     /\ retired.span # <<>>
     /\ Len(span) = 1 \/ status = "crashed") =>
        pc = RuledPC(retired.span, retired.pc, op1, op2)

\* A sample was delivered and decode() went through its loop body for it.
Processed == samplenum' = samplenum + 1 /\ status' # "crashed"

\* The sample delivered by the step has the fetch strobe set.
FetchStrobed == PinAt(delivered', PinSYNC) = 1

\* The sample delivered by the step is a write without the fetch strobe.
WriteStrobed == PinAt(delivered', PinSYNC) # 1 /\ PinAt(delivered', PinRNW) = 0

\* The cycle annotation of the sample delivered by the step names phase c.
ClassifiedAs(c) ==
    /\ cycle' = c
    /\ ann_cycle'.ss = samplenum'
    /\ ann_cycle'.ann = cycle_to_ann_map(c)
    /\ ann_cycle'.text = cycle_to_name_map(c)

\* C20: of the samples that decode() takes through its loop body, a sample
\* with the fetch strobe is classified Fetch whatever its read/write line,
\* and sets the write counter to 0; a write sample without
\* the fetch strobe is classified MemoryWrite whatever the operand count,
\* adds one to the write counter and takes no operand; no other sample
\* changes the write counter; so the write counter is the number of write
\* samples without fetch strobe since the last fetch.
C20_WriteCounting ==
    /\ [][Processed =>
            /\ FetchStrobed => ClassifiedAs(FETCH) /\ write_count' = 0
            /\ WriteStrobed =>
                  /\ ClassifiedAs(MEMWR)
                  /\ write_count' = write_count + 1
                  /\ opcount' = opcount /\ op1' = op1 /\ op2' = op2
            /\ ~FetchStrobed /\ ~WriteStrobed => write_count' = write_count]_vars
    /\ [](/\ span # <<>> => write_count = WritesIn(span)
          /\ span = <<>> => write_count \in 0..(samplenum + 1))

\* BBR0, fetched at sample 0, saw one write while its two operand bytes were
\* outstanding, and was retired by a fetch whose read/write line signals a
\* write: the write was classified MemoryWrite and the fetch reset the
\* counter.
C20_WriteStrobedFetch ==
    /\ status = "running"
    /\ delivered = PinsOf(234, 0, 1)
    /\ cycle = FETCH
    /\ write_count = 0
    /\ Len(span) = 1
    /\ Len(retired.span) = 2
    /\ retired.span[1].data = 15
    /\ retired.span[2].cycle = MEMWR

\* The compare functions with the register each one reads.
CompareSource(fn) ==
    CASE fn = "op_CMP" -> "A"
      [] fn = "op_CPX" -> "X"
      [] fn = "op_CPY" -> "Y"

\* The register transfers with their source and destination registers.
Transfers ==
    {<<"op_TAX", "A", "X">>, <<"op_TAY", "A", "Y">>, <<"op_TXA", "X", "A">>,
     <<"op_TYA", "Y", "A">>, <<"op_TSX", "S", "X">>, <<"op_TXS", "X", "S">>}

\* C21: a compare (CMP, CPX, CPY) applied with its register unknown leaves
\* N, Z and C unknown, and a transfer (TAX, TAY, TXA, TYA, TSX, TXS) applied
\* with its source register unknown leaves the destination register
\* unknown.
C21_UnknownPropagates ==
    [][Applied =>
          /\ \A fn \in {"op_CMP", "op_CPX", "op_CPY"}, operand \in Operands :
                (em[CompareSource(fn)] < 0 /\ em' = Call(fn, em, operand)) =>
                    em'.N = -1 /\ em'.Z = -1 /\ em'.C = -1
          /\ \A t \in Transfers, operand \in Operands :
                (em[t[2]] < 0 /\ em' = Call(t[1], em, operand)) =>
                    em'[t[3]] = -1]_vars

\* C22: the overflow flag is unknown after every ADC and every SBC, whatever
\* the accumulator, the carry, the operand and the overflow flag were.
C22_OverflowUnknown ==
    [][Applied =>
          \A fn \in {"op_ADC", "op_SBC"}, operand \in Operands :
              em' = Call(fn, em, operand) => em'.V = -1]_vars

\* Bit k of a status byte.
StatusBit(operand, k) == (operand \div Pow2(k)) % 2

\* The flags of the status byte with their bit positions.
StatusFlags ==
    {<<"N", 7>>, <<"V", 6>>, <<"D", 3>>, <<"I", 2>>, <<"Z", 1>>, <<"C", 0>>}

\* A flag that the model holds as known differs from its bit of the status
\* byte.
StatusContradicts(e, operand) ==
    \E f \in StatusFlags : e[f[1]] >= 0 /\ e[f[1]] # StatusBit(operand, f[2])

\* C23: PHP, BRK or an interrupt applied with a status byte of which a bit
\* differs from the known flag sets the failure flag, and the snapshot taken
\* next reports the prediction failure.
C23_StatusMismatchRecorded ==
    [][Applied =>
          \A fn \in {"op_PHP", "op_BRK", "interrupt"}, operand \in Operands :
              (StatusContradicts(em, operand) /\ em' = Call(fn, em, operand)) =>
                  /\ em'.failflag = 1
                  /\ get_state(em').text = StateText(em') \o " prediction failed"]_vars

\* The register transfers that affect flags.
FlagTransfers == {t \in Transfers : t[1] # "op_TXS"}

\* C26: TAX, TAY, TXA, TYA and TSX applied with a known source register set
\* the destination register to the source value, N to its bit 7 and Z to 1
\* exactly when it is 0.
C26_TransfersSetFlags ==
    [][Applied =>
          \A t \in FlagTransfers, operand \in Operands :
              (em[t[2]] >= 0 /\ em' = Call(t[1], em, operand)) =>
                  /\ em'[t[3]] = em[t[2]]
                  /\ em'.N = em[t[2]] \div 128
                  /\ em'.Z = IF em[t[2]] = 0 THEN 1 ELSE 0]_vars

\* C24: once the first fetch was seen the PC is a 16-bit value, and so is
\* the PC printed in every instruction annotation.
C24_PcSixteenBits ==
    /\ last_fetch >= 0 => pc \in 0..65535
    /\ retired.emitted => retired.pc \in 0..65535

\* The number of reads that follow the fetch of a span.
ReadsIn(sp) == Cardinality({i \in 1..Len(sp) : IsRead(sp[i])})

\* Byte b was captured as operand c (OP1 or OP2) by a sample of the span.
CapturedIn(sp, c, b) == \E i \in 2..Len(sp) : sp[i].cycle = c /\ sp[i].data = b

\* C25: when an instruction of length 2 or 3 retires after its fetch was
\* followed by as many reads as it has operand bytes, the operand 1 (and the
\* operand 2 for length 3) used for it is a byte that a sample of its own
\* span delivered as that operand.
C25_OperandsOfOwnSpan ==
    (/\ retired.fetches > 0
     /\ retired.span # <<>>
     /\ Len(span) = 1
     /\ status # "crashed"
     /\ LengthOf(retired.span[1].data) >= 2
     /\ ReadsIn(retired.span) >= LengthOf(retired.span[1].data) - 1) =>
        /\ CapturedIn(retired.span, OP1, op1)
        /\ LengthOf(retired.span[1].data) = 3 => CapturedIn(retired.span, OP2, op2)

====
